---- MODULE Spec2Model ----
(***************************************************************************)
(* Swap-to-position reconciliation of buysmart.                            *)
(*                                                                         *)
(* handleSwapSuccess (src/lib/swap-position-handler.ts, the definition at  *)
(* lines 272-394, which is the later of the two definitions in that file   *)
(* and therefore the one in effect) with extractPriceFromSwap (401-437)    *)
(* and extractTransactionTimestamp (443-465), and the wiring of the Home   *)
(* component (src/app/components/Components.tsx 103-187).                  *)
(*                                                                         *)
(* The Position Store (@/lib/positions-context) is not part of the         *)
(* sources; openPosition, closePosition, listOpen and computePnL follow    *)
(* sections 3, 4.3 and 4.4 of the specification.                           *)
(***************************************************************************)
EXTENDS Integers, Sequences, FiniteSets, TLC

VARIABLES
    positions,           \* Position Store: the records, in insertion order
    nextId,              \* Position Store: next fresh id
    now,                 \* the wall clock, in milliseconds since the epoch
    tasks,               \* reconciliations scheduled by handleSwapSuccess and not yet finished
    swaps,               \* number of swap completion events so far
    last,                \* what the reconciliation that finished last did
    predictionData,      \* Home: state predictionData
    isCreatingPosition,  \* Home: state isCreatingPosition
    swapSuccessMessage,  \* Home: state swapSuccessMessage
    messageTimers,       \* Home: some setTimeout callback that clears the message is pending
    rendered,            \* Home: what the closures of the last render captured
    resolved,            \* the price resolver applied on its own: its input and result
    storeCall,           \* the last call of the store's open, close or delete, and its outcome
    profit,              \* the profit and loss of one position, as stored at close and as shown
    priceFeed,           \* the price feed: process.env, and the last call of the adapter
    reconciled,          \* swaps reconciled with success so far, by direction
    isDeleting,          \* PositionsTable: state isDeleting (a position id or null)
    showDeleteModal,     \* PositionsTable: state showDeleteModal
    positionToDelete,    \* PositionsTable: state positionToDelete (a position or null)
    deleting,            \* PositionsTable: calls of handleDeletePosition awaiting deletePosition
    lastDelete           \* PositionsTable: the call of handleDeletePosition that ended last

vars == <<positions, nextId, now, tasks, swaps, last, predictionData,
          isCreatingPosition, swapSuccessMessage, messageTimers, rendered, resolved, storeCall, profit,
          priceFeed, reconciled, isDeleting, showDeleteModal, positionToDelete, deleting,
          lastDelete>>

-----------------------------------------------------------------------------
(* Bounds of the model *)

\* direct calls of handleSwapSuccess
MaxSwaps == 1
\* records entered by hand before the first swap
MaxManual == 2
\* swap completion events delivered to Home
MaxHomeSwaps == 2
\* swaps reconciled one after the other from an empty store
MaxTurns == 4
\* records created by calls of the store's open
MaxRecords == 2
\* calls of handleDeletePosition awaiting the store at one time
MaxDeleting == 2

\* the delay of the deferred task: setTimeout(..., 100)
TimerDelay == 100

-----------------------------------------------------------------------------
(* JavaScript numbers: exact fractions n/d in lowest terms, d > 0, and NaN *)

NaN == [n |-> 0, d |-> 0]

IsNaN(x) == x.d = 0

Abs(i) == IF i < 0 THEN -i ELSE i

RECURSIVE GCD(_, _)
GCD(a, b) == IF b = 0 THEN a ELSE GCD(b, a % b)

Rat(n, d) ==
    IF d = 0 THEN NaN
    ELSE LET g == GCD(Abs(n), Abs(d))
             s == IF d < 0 THEN -1 ELSE 1
         IN [n |-> s * (n \div g), d |-> s * (d \div g)]

Num(i) == [n |-> i, d |-> 1]

\* x > 0, x <= 0 : every comparison with NaN is false
Gt0(x) == ~IsNaN(x) /\ x.n > 0
Le0(x) == ~IsNaN(x) /\ x.n <= 0

NumSub(x, y) == IF IsNaN(x) \/ IsNaN(y) THEN NaN ELSE Rat(x.n * y.d - y.n * x.d, x.d * y.d)

\* common factors are cancelled before multiplying
NumMul(x, y) ==
    IF IsNaN(x) \/ IsNaN(y) THEN NaN
    ELSE LET a == Rat(x.n, y.d)
             b == Rat(y.n, x.d)
         IN Rat(a.n * b.n, a.d * b.d)

\* x / y for y # 0 (the code divides only behind a y > 0 test)
NumDiv(x, y) == IF IsNaN(x) \/ IsNaN(y) THEN NaN ELSE NumMul(x, Rat(y.d, y.n))

-----------------------------------------------------------------------------
(* parseFloat on a string, given as its sequence of characters:            *)
(* leading blanks, an optional sign, digits, an optional fraction; the     *)
(* longest such prefix is the number, none is NaN                          *)

Digits == {"0", "1", "2", "3", "4", "5", "6", "7", "8", "9"}

DigitVal(c) ==
    CASE c = "0" -> 0 [] c = "1" -> 1 [] c = "2" -> 2 [] c = "3" -> 3 [] c = "4" -> 4
      [] c = "5" -> 5 [] c = "6" -> 6 [] c = "7" -> 7 [] c = "8" -> 8 [] c = "9" -> 9

RECURSIVE SkipBlanks(_)
SkipBlanks(s) == IF s # <<>> /\ Head(s) = " " THEN SkipBlanks(Tail(s)) ELSE s

RECURSIVE DigitRun(_)
DigitRun(s) == IF s # <<>> /\ Head(s) \in Digits THEN 1 + DigitRun(Tail(s)) ELSE 0

RECURSIVE DigitsValue(_, _)
DigitsValue(s, k) == IF k = 0 THEN 0 ELSE DigitsValue(s, k - 1) * 10 + DigitVal(s[k])

RECURSIVE Pow10(_)
Pow10(k) == IF k = 0 THEN 1 ELSE 10 * Pow10(k - 1)

parseFloat(str) ==
    LET s0   == SkipBlanks(str)
        neg  == s0 # <<>> /\ Head(s0) = "-"
        s1   == IF s0 # <<>> /\ Head(s0) \in {"-", "+"} THEN Tail(s0) ELSE s0
        ni   == DigitRun(s1)
        rest == SubSeq(s1, ni + 1, Len(s1))
        frac == IF rest # <<>> /\ Head(rest) = "." THEN Tail(rest) ELSE <<>>
        nf   == DigitRun(frac)
        mag  == DigitsValue(s1, ni) * Pow10(nf) + DigitsValue(frac, nf)
    IN IF ni + nf = 0 THEN NaN
       ELSE Rat(IF neg THEN -mag ELSE mag, Pow10(nf))

\* a string is truthy iff it is not empty; a missing field is undefined, falsy
Has(obj, field) == field \in DOMAIN obj
TruthyStr(obj, field) == Has(obj, field) /\ obj[field] # <<>>

-----------------------------------------------------------------------------
(* extractPriceFromSwap: the price of one ETH in USDC from the amounts     *)
(* swapped.  threw: the function throws; feed: the price feed was queried  *)

Threw == [threw |-> TRUE, price |-> NaN, feed |-> FALSE]
Price(p) == [threw |-> FALSE, price |-> p, feed |-> FALSE]

IsUSDCToETH(tokens) == tokens.fromSymbol = "USDC" /\ tokens.toSymbol = "ETH"
IsETHToUSDC(tokens) == tokens.fromSymbol = "ETH" /\ tokens.toSymbol = "USDC"

\* the earlier definition of the file (lines 166-203): the payload's price,
\* then its executionPrice, then fromAmount / toAmount whatever the direction,
\* then the price feed (here: unreachable, so 0)
extractPriceFromSwapFallback(transactionData, tokens) ==
    IF Has(transactionData, "price") /\ ~IsNaN(transactionData.price)
                                     /\ transactionData.price.n # 0
        THEN Price(transactionData.price)
    ELSE IF Has(transactionData, "executionPrice") /\ ~IsNaN(transactionData.executionPrice)
                                                   /\ transactionData.executionPrice.n # 0
        THEN Price(transactionData.executionPrice)
    ELSE IF /\ TruthyStr(transactionData, "fromAmount")
            /\ TruthyStr(transactionData, "toAmount")
            /\ Gt0(parseFloat(transactionData.toAmount))
        THEN Price(NumDiv(parseFloat(transactionData.fromAmount),
                          parseFloat(transactionData.toAmount)))
    ELSE [threw |-> FALSE, price |-> Num(0), feed |-> TRUE]

\* the two quotients exchanged
extractPriceFromSwapInverted(transactionData, tokens) ==
    IF TruthyStr(transactionData, "fromAmount") /\ TruthyStr(transactionData, "toAmount")
    THEN LET fromAmount == parseFloat(transactionData.fromAmount)
             toAmount   == parseFloat(transactionData.toAmount)
         IN IF IsUSDCToETH(tokens) /\ Gt0(toAmount)
                THEN Price(NumDiv(toAmount, fromAmount))
            ELSE IF IsETHToUSDC(tokens) /\ Gt0(fromAmount)
                THEN Price(NumDiv(fromAmount, toAmount))
            ELSE Threw
    ELSE Threw

extractPriceFromSwap(transactionData, tokens) ==
    IF TruthyStr(transactionData, "fromAmount") /\ TruthyStr(transactionData, "toAmount")
    THEN LET fromAmount == parseFloat(transactionData.fromAmount)
             toAmount   == parseFloat(transactionData.toAmount)
         IN IF IsUSDCToETH(tokens) /\ Gt0(toAmount)
                THEN Price(NumDiv(fromAmount, toAmount))
            ELSE IF IsETHToUSDC(tokens) /\ Gt0(fromAmount)
                THEN Price(NumDiv(toAmount, fromAmount))
            ELSE Threw
    ELSE Threw

-----------------------------------------------------------------------------
(* Dates.  An ISO-8601 string is modelled by the day and the millisecond   *)
(* of the day it spells; new Date(iso).getTime() reads it back             *)

MsPerDay == 24 * 60 * 60 * 1000

toISOString(ms) == [day |-> ms \div MsPerDay, ms |-> ms % MsPerDay]

getTime(iso) == iso.day * MsPerDay + iso.ms

\* a payload field holding a number: present, typeof 'number', and truthy (not 0)
TruthyNumber(obj, field) ==
    Has(obj, field) /\ obj[field].type = "number" /\ obj[field].v # 0

\* the embedded value taken as milliseconds
extractTransactionTimestampMs(transactionData, clock) ==
    IF TruthyNumber(transactionData, "timestamp")
        THEN toISOString(transactionData.timestamp.v)
    ELSE IF TruthyNumber(transactionData, "blockTimestamp")
        THEN toISOString(transactionData.blockTimestamp.v)
    ELSE toISOString(clock)

extractTransactionTimestamp(transactionData, clock) ==
    IF TruthyNumber(transactionData, "timestamp")
        THEN toISOString(transactionData.timestamp.v * 1000)
    ELSE IF TruthyNumber(transactionData, "blockTimestamp")
        THEN toISOString(transactionData.blockTimestamp.v * 1000)
    ELSE toISOString(clock)

-----------------------------------------------------------------------------
(* Position Store (sections 3, 4.3, 4.4 of the specification)              *)

\* the profit of a BUY taken for either side
computePnLBuyOnly(side, openPrice, closePrice) ==
    [absolute |-> NumSub(closePrice, openPrice),
     percent  |-> NumMul(NumDiv(NumSub(closePrice, openPrice), openPrice), Num(100))]

computePnL(side, openPrice, closePrice) ==
    LET absolute == IF side = "BUY" THEN NumSub(closePrice, openPrice)
                                    ELSE NumSub(openPrice, closePrice)
    IN [absolute |-> absolute,
        percent  |-> NumMul(NumDiv(absolute, openPrice), Num(100))]

\* an open that gives out the number of records held plus one as the id
openPositionByCount(ps, id, input, clock) ==
    Append(ps, [id       |-> Len(ps) + 1,
                side     |-> input.side,
                status   |-> "OPEN",
                priceUsd |-> input.priceUsd,
                openedAt |-> IF Has(input, "openedAt") THEN input.openedAt
                                                       ELSE toISOString(clock)])

\* open(side, priceUsd, openedAt?): a new OPEN record with a fresh id, appended
openPosition(ps, id, input, clock) ==
    Append(ps, [id       |-> id,
                side     |-> input.side,
                status   |-> "OPEN",
                priceUsd |-> input.priceUsd,
                openedAt |-> IF Has(input, "openedAt") THEN input.openedAt
                                                       ELSE toISOString(clock)])

IndexOf(ps, id) ==
    IF \E i \in 1..Len(ps) : ps[i].id = id
    THEN CHOOSE i \in 1..Len(ps) : ps[i].id = id
    ELSE 0

\* a close that records the price and the status but not the time
closePositionPartial(ps, id, closedAt, closePriceUsd) ==
    LET i == IndexOf(ps, id)
    IN IF i = 0 THEN [error |-> "PositionNotFound", positions |-> ps]
       ELSE IF ps[i].status = "CLOSED" THEN [error |-> "AlreadyClosed", positions |-> ps]
       ELSE [error |-> "none",
             positions |-> [ps EXCEPT ![i] =
                 [id            |-> ps[i].id,
                  side          |-> ps[i].side,
                  status        |-> "CLOSED",
                  priceUsd      |-> ps[i].priceUsd,
                  openedAt      |-> ps[i].openedAt,
                  closePriceUsd |-> closePriceUsd]]]

\* a close that writes the closing price over the entry price
closePositionOverwrite(ps, id, closedAt, closePriceUsd) ==
    LET i == IndexOf(ps, id)
    IN IF i = 0 THEN [error |-> "PositionNotFound", positions |-> ps]
       ELSE IF ps[i].status = "CLOSED" THEN [error |-> "AlreadyClosed", positions |-> ps]
       ELSE [error |-> "none",
             positions |-> [ps EXCEPT ![i] =
                 [id                |-> ps[i].id,
                  side              |-> ps[i].side,
                  status            |-> "CLOSED",
                  priceUsd          |-> closePriceUsd,
                  openedAt          |-> ps[i].openedAt,
                  closePriceUsd     |-> closePriceUsd,
                  closedAt          |-> closedAt,
                  profitLoss        |-> Num(0),
                  profitLossPercent |-> Num(0)]]]

\* a close that takes an unknown id for done
closePositionLenient(ps, id, closedAt, closePriceUsd) ==
    LET i == IndexOf(ps, id)
    IN IF i = 0 THEN [error |-> "none", positions |-> ps]
       ELSE IF ps[i].status = "CLOSED" THEN [error |-> "AlreadyClosed", positions |-> ps]
       ELSE [error |-> "none",
             positions |-> [ps EXCEPT ![i] =
                 [id                |-> ps[i].id,
                  side              |-> ps[i].side,
                  status            |-> "CLOSED",
                  priceUsd          |-> ps[i].priceUsd,
                  openedAt          |-> ps[i].openedAt,
                  closePriceUsd     |-> closePriceUsd,
                  closedAt          |-> closedAt,
                  profitLoss        |-> computePnL(ps[i].side, ps[i].priceUsd, closePriceUsd).absolute,
                  profitLossPercent |-> computePnL(ps[i].side, ps[i].priceUsd, closePriceUsd).percent]]]

\* a close that accepts a closed record and closes it again
closePositionAgain(ps, id, closedAt, closePriceUsd) ==
    LET i == IndexOf(ps, id)
    IN IF i = 0 THEN [error |-> "PositionNotFound", positions |-> ps]
       ELSE [error |-> "none",
             positions |-> [ps EXCEPT ![i] =
                 [id                |-> ps[i].id,
                  side              |-> ps[i].side,
                  status            |-> "CLOSED",
                  priceUsd          |-> ps[i].priceUsd,
                  openedAt          |-> ps[i].openedAt,
                  closePriceUsd     |-> closePriceUsd,
                  closedAt          |-> closedAt,
                  profitLoss        |-> computePnL(ps[i].side, ps[i].priceUsd, closePriceUsd).absolute,
                  profitLossPercent |-> computePnL(ps[i].side, ps[i].priceUsd, closePriceUsd).percent]]]

\* close(id, closedAt, closePriceUsd): PositionNotFound, AlreadyClosed, or the
\* record closed with its profit and loss, everything else as it was
closePosition(ps, id, closedAt, closePriceUsd) ==
    LET i == IndexOf(ps, id)
    IN IF i = 0 THEN [error |-> "PositionNotFound", positions |-> ps]
       ELSE IF ps[i].status = "CLOSED" THEN [error |-> "AlreadyClosed", positions |-> ps]
       ELSE LET pnl == computePnL(ps[i].side, ps[i].priceUsd, closePriceUsd)
            IN [error |-> "none",
                positions |-> [ps EXCEPT ![i] =
                    [id                |-> ps[i].id,
                     side              |-> ps[i].side,
                     status            |-> "CLOSED",
                     priceUsd          |-> ps[i].priceUsd,
                     openedAt          |-> ps[i].openedAt,
                     closePriceUsd     |-> closePriceUsd,
                     closedAt          |-> closedAt,
                     profitLoss        |-> pnl.absolute,
                     profitLossPercent |-> pnl.percent]]]

\* a delete that fills the gap with the last record
deletePositionMoveLast(ps, id) ==
    LET i == IndexOf(ps, id)
    IN IF i = 0 THEN ps
       ELSE IF i = Len(ps) THEN SubSeq(ps, 1, Len(ps) - 1)
       ELSE [k \in 1..(Len(ps) - 1) |-> IF k = i THEN ps[Len(ps)] ELSE ps[k]]

\* delete(id): the record is removed, the others stay as they are and in order
deletePosition(ps, id) == SelectSeq(ps, LAMBDA p : p.id # id)

IsOpen(p) == p.status = "OPEN"

\* listOpen(): {id, openedAt, side} of the OPEN records, in insertion order
listOpen(ps) ==
    LET Project(p) == [id |-> p.id, openedAt |-> p.openedAt, side |-> p.side]
        kept == SelectSeq(ps, IsOpen)
    IN [i \in 1..Len(kept) |-> Project(kept[i])]

-----------------------------------------------------------------------------
(* PositionsTable.getPerformanceSummary: the running profit and loss of an  *)
(* OPEN position at the current price                                       *)

NumAbs(x) == IF IsNaN(x) THEN NaN ELSE [n |-> Abs(x.n), d |-> x.d]

\* currentPnL >= 0 ? 1 : -1  (a comparison with NaN is false)
SignOf(x) == IF ~IsNaN(x) /\ x.n >= 0 THEN Num(1) ELSE Num(-1)

currentPnL(position, currentEthPrice) ==
    IF position.side = "BUY" THEN NumSub(currentEthPrice, position.priceUsd)
                             ELSE NumSub(position.priceUsd, currentEthPrice)

\* the percentage without the factor (currentPnL >= 0 ? 1 : -1)
currentPnLPercentUnsigned(position, currentEthPrice) ==
    NumMul(NumDiv(NumAbs(currentPnL(position, currentEthPrice)), position.priceUsd), Num(100))

currentPnLPercent(position, currentEthPrice) ==
    NumMul(NumMul(NumDiv(NumAbs(currentPnL(position, currentEthPrice)), position.priceUsd),
                  Num(100)),
           SignOf(currentPnL(position, currentEthPrice)))

-----------------------------------------------------------------------------
(* The body of the deferred task of handleSwapSuccess, up to its store call *)

\* Array.prototype.sort with the comparator getTime(a.openedAt) - getTime(b.openedAt).
\* The sort is stable: of two elements that compare equal, the one that came
\* first stays first.
\* a sort that is not stable: an element goes behind the ones it compares equal to
RECURSIVE InsertAfterEqual(_, _)
InsertAfterEqual(p, sorted) ==
    IF sorted = <<>> THEN <<p>>
    ELSE IF getTime(p.openedAt) < getTime(Head(sorted).openedAt)
         THEN <<p>> \o sorted
         ELSE <<Head(sorted)>> \o InsertAfterEqual(p, Tail(sorted))

RECURSIVE InsertByOpenedAt(_, _)
InsertByOpenedAt(p, sorted) ==
    IF sorted = <<>> THEN <<p>>
    ELSE IF getTime(p.openedAt) <= getTime(Head(sorted).openedAt)
         THEN <<p>> \o sorted
         ELSE <<Head(sorted)>> \o InsertByOpenedAt(p, Tail(sorted))

RECURSIVE sortByOpenedAt(_)
sortByOpenedAt(s) ==
    IF s = <<>> THEN <<>> ELSE InsertByOpenedAt(Head(s), sortByOpenedAt(Tail(s)))

\* no filter by side (the variant of the handler that closes the oldest open
\* position whatever its side)
openOfAnySide(open, side) == open

\* openPositions.filter(p => p.side === side): a record without a side never matches
openOfSide(open, side) ==
    SelectSeq(open, LAMBDA p : Has(p, "side") /\ p.side = side)

\* the sort taken in descending order
newest(open) == sortByOpenedAt(open)[Len(open)]

\* openPositions.sort(by openedAt)[0]
oldest(open) == sortByOpenedAt(open)[1]

NoCall == [fn |-> "none"]

Failed(message, feed) ==
    [kind |-> "error", message |-> message, feed |-> feed, polled |-> FALSE, call |-> NoCall]

\* a handler that refuses a close dated before the opening
CloseOldestInOrder(candidates, side, closedAt, price) ==
    IF getTime(closedAt) < getTime(oldest(candidates).openedAt)
    THEN [kind |-> "error", message |-> "closedAt before openedAt", feed |-> FALSE,
          polled |-> TRUE, call |-> NoCall]
    ELSE [kind |-> "close", message |-> "", feed |-> FALSE, polled |-> TRUE,
          call |-> [fn |-> "closePosition", id |-> oldest(candidates).id, side |-> side,
                    closedAt |-> closedAt, closePriceUsd |-> price]]

CloseOldest(candidates, side, closedAt, price) ==
    [kind |-> "close", message |-> "", feed |-> FALSE, polled |-> TRUE,
     call |-> [fn |-> "closePosition", id |-> oldest(candidates).id, side |-> side,
               closedAt |-> closedAt, closePriceUsd |-> price]]

OpenNew(side, openedAt, price) ==
    [kind |-> "open", message |-> "", feed |-> FALSE, polled |-> TRUE,
     call |-> [fn |-> "openPosition", side |-> side,
               input |-> [side |-> side, priceUsd |-> price, openedAt |-> openedAt]]]

\* the variant of the handler that opens BUY positions only: an ETH->USDC swap
\* closes the oldest open position, and is an error when there is none
timerBodyCloseOnly(transactionData, tokens, open, clock) ==
    LET r == extractPriceFromSwap(transactionData, tokens)
    IN IF r.threw THEN Failed("Failed to manage position", r.feed)
       ELSE IF Le0(r.price) THEN Failed("Could not determine ETH price", r.feed)
       ELSE LET transactionTimestamp == extractTransactionTimestamp(transactionData, clock)
            IN IF IsUSDCToETH(tokens)
               THEN OpenNew("BUY", transactionTimestamp, r.price)
               ELSE IF Len(open) = 0
               THEN Failed("No open positions available to close", r.feed)
               ELSE CloseOldest(open, "BUY", transactionTimestamp, r.price)

\* the catch block without its onError call: a throw of the resolver ends
\* the task unreported
managePositionSilent(transactionData, tokens, open, clock, r) ==
    IF r.threw
    THEN [kind |-> "ignored", message |-> "", feed |-> r.feed, polled |-> FALSE, call |-> NoCall]
    ELSE IF Le0(r.price) THEN Failed("Could not determine ETH price", r.feed)
    ELSE LET transactionTimestamp == extractTransactionTimestamp(transactionData, clock)
         IN IF IsUSDCToETH(tokens) /\ openOfSide(open, "SELL") # <<>>
                THEN CloseOldest(openOfSide(open, "SELL"), "SELL", transactionTimestamp, r.price)
            ELSE IF IsETHToUSDC(tokens) /\ openOfSide(open, "BUY") # <<>>
                THEN CloseOldest(openOfSide(open, "BUY"), "BUY", transactionTimestamp, r.price)
            ELSE OpenNew(IF IsUSDCToETH(tokens) THEN "BUY" ELSE "SELL",
                         transactionTimestamp, r.price)

\* the try block once the price is resolved (r: what extractPriceFromSwap
\* returned or that it threw); open: what getOpenPositions() returns when it
\* is called; clock: the time of the run
managePosition(transactionData, tokens, open, clock, r) ==
    IF r.threw THEN Failed("Failed to manage position", r.feed)
    ELSE IF Le0(r.price) THEN Failed("Could not determine ETH price", r.feed)
    ELSE LET transactionTimestamp == extractTransactionTimestamp(transactionData, clock)
         IN IF IsUSDCToETH(tokens)
            THEN LET openSellPositions == openOfSide(open, "SELL")
                 IN IF Len(openSellPositions) > 0
                    THEN CloseOldest(openSellPositions, "SELL", transactionTimestamp, r.price)
                    ELSE OpenNew("BUY", transactionTimestamp, r.price)
            ELSE IF IsETHToUSDC(tokens)
            THEN LET openBuyPositions == openOfSide(open, "BUY")
                 IN IF Len(openBuyPositions) > 0
                    THEN CloseOldest(openBuyPositions, "BUY", transactionTimestamp, r.price)
                    ELSE OpenNew("SELL", transactionTimestamp, r.price)
            ELSE [kind |-> "ignored", message |-> "", feed |-> r.feed,
                  polled |-> FALSE, call |-> NoCall]

\* transactionData, tokens: the arguments of handleSwapSuccess
timerBody(transactionData, tokens, open, clock) ==
    managePosition(transactionData, tokens, open, clock,
                   extractPriceFromSwap(transactionData, tokens))

-----------------------------------------------------------------------------
(* Home (Components.tsx) *)

NoPrediction == [prediction |-> "null", tokenToBuy |-> "null"]

\* TOKEN_MAP has ETH and WBTC; anything else, and no prediction, gives ETH
targetToken(data) == IF data.tokenToBuy = "WBTC" THEN "WBTC" ELSE "ETH"

fromToken(data) == IF data.prediction = "negative" THEN targetToken(data) ELSE "USDC"
toToken(data)   == IF data.prediction = "negative" THEN "USDC" ELSE targetToken(data)

\* Home's helper: positions.filter(OPEN).map(p => ({ id, openedAt }))
getOpenPositions(ps) ==
    LET Project(p) == [id |-> p.id, openedAt |-> p.openedAt]
        kept == SelectSeq(ps, IsOpen)
    IN [i \in 1..Len(kept) |-> Project(kept[i])]

-----------------------------------------------------------------------------
(* Inputs *)

EmptyObject == [f \in {} |-> 0]

\* a field that is missing, or present with one of the values
Optional(field, values) == {EmptyObject} \cup {field :> v : v \in values}

\* decimal strings, character by character
Str2000 == <<"2", "0", "0", "0">>
Str2200 == <<"2", "2", "0", "0">>
Str1    == <<"1">>
Str0    == <<"0">>
StrNeg  == <<"-", "5">>
StrHalf == <<"0", ".", "5">>
StrAbc  == <<"a", "b", "c">>
StrNone == <<>>

AmountStrings == {Str2000, Str2200, Str1, Str0, StrNeg, StrHalf, StrAbc, StrNone}

Seconds(v) == [type |-> "number", v |-> v]

Pair(from, to) == [fromSymbol |-> from, toSymbol |-> to]

TokenPairs == {Pair("USDC", "ETH"), Pair("ETH", "USDC"), Pair("USDC", "WBTC")}

GoodAmounts == ("fromAmount" :> Str2000) @@ ("toAmount" :> Str1)

\* payloads that differ in their amounts only
AmountPayloads ==
    {a @@ b : a \in Optional("fromAmount", {Str2000, Str0, StrAbc}),
              b \in Optional("toAmount", {Str1, StrHalf, Str0})}

\* payloads with good amounts that differ in their timestamps: a number of
\* seconds, the number 0, a string, or none
TimedPayloads ==
    {GoodAmounts @@ b @@ c :
        b \in Optional("timestamp", {Seconds(1), Seconds(0)}),
        c \in Optional("blockTimestamp", {Seconds(4)})}
    \cup {GoodAmounts @@ ("timestamp" :> [type |-> "string", v |-> 3])
                      @@ ("blockTimestamp" :> Seconds(4)),
          GoodAmounts @@ ("blockTimestamp" :> Seconds(0))}

\* payloads that carry a price, with good amounts or without toAmount
PricedPayloads ==
    {a @@ d : a \in {GoodAmounts, "fromAmount" :> Str2000},
              d \in {"price" :> Num(1500), "executionPrice" :> Num(1600)}}

Payloads == AmountPayloads \cup TimedPayloads \cup PricedPayloads

-----------------------------------------------------------------------------
(* State *)

Snapshot == [positions |-> positions, isCreatingPosition |-> isCreatingPosition,
             predictionData |-> predictionData]

\* the application before anything happened
\* null, for a state that holds a position id (ids start at 1) or a position
NullId == 0
NullPosition == [id |-> NullId]

InitApp ==
    /\ positions = <<>>
    /\ nextId = 1
    /\ now = 5 * 1000
    /\ tasks = <<>>
    /\ swaps = 0
    /\ last = [swap |-> 0]
    /\ predictionData = NoPrediction
    /\ isCreatingPosition = FALSE
    /\ swapSuccessMessage = "null"
    /\ messageTimers = FALSE
    /\ rendered = [positions |-> <<>>, isCreatingPosition |-> FALSE,
                   predictionData |-> NoPrediction]
    /\ resolved = [done |-> FALSE]
    /\ storeCall = [op |-> "none"]
    /\ profit = [done |-> FALSE]
    /\ reconciled = [buy |-> 0, sell |-> 0]
    /\ isDeleting = NullId
    /\ showDeleteModal = FALSE
    /\ positionToDelete = NullPosition
    /\ deleting = <<>>
    /\ lastDelete = [done |-> FALSE]

\* NEXT_PUBLIC_API_ETH_SPOT is not set
Init == InitApp /\ priceFeed = [env |-> EmptyObject, fn |-> "none"]

home == <<predictionData, isCreatingPosition, swapSuccessMessage, messageTimers, rendered>>
store == <<positions, nextId>>
table == <<isDeleting, showDeleteModal, positionToDelete, deleting, lastDelete>>

Remove(s, i) == SubSeq(s, 1, i - 1) \o SubSeq(s, i + 1, Len(s))

\* promise: the promise handleSwapSuccess returned for this call; its body is
\* the setTimeout call alone, so it is fulfilled as soon as the task is scheduled
\* overlapped: another reconciliation was still running when this one was started
\* a handleSwapSuccess that awaited its body instead of handing it to setTimeout
NewTaskAwaited(via, transactionData, tokens, captured) ==
    [swap |-> swaps + 1, via |-> via, transactionData |-> transactionData,
     tokens |-> tokens, captured |-> captured, pc |-> "scheduled",
     at |-> 0, seen |-> <<>>, out |-> [kind |-> "none"], promise |-> "pending",
     overlapped |-> tasks # <<>>]

NewTask(via, transactionData, tokens, captured) ==
    [swap |-> swaps + 1, via |-> via, transactionData |-> transactionData,
     tokens |-> tokens, captured |-> captured, pc |-> "scheduled",
     at |-> 0, seen |-> <<>>, out |-> [kind |-> "none"], promise |-> "fulfilled",
     overlapped |-> tasks # <<>>]

\* what a finished reconciliation did: the calls it made and the store around them
Observation(t, at, seen, out, error, onSuccess, onError, pre, post) ==
    [swap |-> t.swap, via |-> t.via, transactionData |-> t.transactionData,
     tokens |-> t.tokens, captured |-> t.captured, at |-> at,
     seen |-> seen, out |-> out, error |-> error, promise |-> t.promise,
     overlapped |-> t.overlapped,
     onSuccess |-> onSuccess, onError |-> onError, pre |-> pre, post |-> post]

-----------------------------------------------------------------------------
(* Actions *)

\* the callbacks handed to handleSwapSuccess: Home's update its state, a
\* direct caller's are only recorded in the observation
Callbacks(t, obs) ==
    IF t.via = "home" /\ obs.onSuccess # <<>>
    THEN /\ swapSuccessMessage' =
                IF IsUSDCToETH(t.tokens) THEN "BUY position automatically created"
                ELSE IF IsETHToUSDC(t.tokens) THEN "Position automatically closed"
                ELSE swapSuccessMessage
         /\ messageTimers' = TRUE
         /\ isCreatingPosition' = FALSE
    ELSE IF t.via = "home" /\ obs.onError # <<>>
    THEN /\ isCreatingPosition' = FALSE
         /\ UNCHANGED <<swapSuccessMessage, messageTimers>>
    ELSE UNCHANGED <<swapSuccessMessage, messageTimers, isCreatingPosition>>

Finish(i, obs) ==
    /\ tasks' = Remove(tasks, i)
    /\ last' = obs
    /\ reconciled' =
          IF obs.onSuccess = <<>> THEN reconciled
          ELSE IF IsUSDCToETH(obs.tokens) THEN [reconciled EXCEPT !.buy = @ + 1]
          ELSE [reconciled EXCEPT !.sell = @ + 1]
    /\ Callbacks(tasks[i], obs)

\* handleSwapSuccess called with the store's openPosition, closePosition and
\* listOpen, one reconciliation at a time: it only schedules the task
handleSwapSuccess(transactionData, tokens) ==
    /\ swaps < MaxSwaps
    /\ tasks = <<>>
    /\ swaps' = swaps + 1
    /\ tasks' = Append(tasks, NewTask("direct", transactionData, tokens, <<>>))
    /\ last' = [swap |-> 0]
    /\ UNCHANGED <<store, now, home, resolved, storeCall, profit, table, priceFeed, reconciled>>

\* the setTimeout callback runs, TimerDelay after the call: up to the store
\* call, or to the end when it makes none
TimerFire(i) ==
    /\ tasks[i].pc = "scheduled"
    /\ now' = now + TimerDelay
    /\ LET t    == tasks[i]
           open == IF t.via = "home" THEN getOpenPositions(t.captured)
                                     ELSE listOpen(positions)
           out  == timerBody(t.transactionData, t.tokens, open, now')
           seen == IF out.polled THEN open ELSE <<>>
       IN IF out.call.fn = "none"
          THEN Finish(i, Observation(t, now', seen, out, "none", <<>>,
                                     IF out.kind = "error" THEN <<out.message>> ELSE <<>>,
                                     positions, positions))
          ELSE /\ tasks' = [tasks EXCEPT ![i].pc = "awaiting", ![i].out = out,
                                         ![i].seen = seen, ![i].at = now']
               /\ UNCHANGED <<last, swapSuccessMessage, messageTimers, isCreatingPosition,
                              reconciled>>
    /\ UNCHANGED <<store, swaps, predictionData, rendered, resolved, storeCall, profit, table, priceFeed>>

\* the store call settles: the store fails (StorageError), or refuses the
\* close, or does what was asked; the task goes on to its callback
StoreSettle(i, storageError) ==
    /\ tasks[i].pc = "awaiting"
    /\ LET t    == tasks[i]
           call == t.out.call
           done == IF call.fn = "openPosition"
                   THEN [error |-> "none",
                         positions |-> openPosition(positions, nextId, call.input, now)]
                   ELSE closePosition(positions, call.id, call.closedAt, call.closePriceUsd)
           error == IF storageError THEN "StorageError" ELSE done.error
           post  == IF error = "none" THEN done.positions ELSE positions
       IN /\ positions' = post
          /\ nextId' = IF error = "none" /\ call.fn = "openPosition" THEN nextId + 1 ELSE nextId
          /\ Finish(i, Observation(t, t.at, t.seen, t.out, error,
                        IF error = "none"
                            THEN <<[action |-> IF call.fn = "openPosition" THEN "opened"
                                                                           ELSE "closed",
                                    side |-> call.side]>>
                            ELSE <<>>,
                        IF error = "none" THEN <<>> ELSE <<"Failed to manage position">>,
                        positions, post))
    /\ UNCHANGED <<now, swaps, predictionData, rendered, resolved, storeCall, profit, table, priceFeed>>

\* before the first swap, positions are entered by hand and one of them is
\* closed by hand (the manual-entry and manual-close forms call the store's
\* open and close)
ManualOpen(side, priceUsd, openedAt) ==
    /\ swaps = 0
    /\ Len(positions) < MaxManual
    /\ positions' = openPosition(positions, nextId,
                                 [side |-> side, priceUsd |-> priceUsd] @@ openedAt, now)
    /\ nextId' = nextId + 1
    /\ UNCHANGED <<now, tasks, swaps, last, home, resolved, storeCall, profit, table, priceFeed, reconciled>>

ManualClose(id, closedAt, closePriceUsd) ==
    /\ swaps = 0
    /\ \A i \in 1..Len(positions) : IsOpen(positions[i])
    /\ LET done == closePosition(positions, id, closedAt, closePriceUsd)
       IN /\ done.error = "none"
          /\ positions' = done.positions
    /\ UNCHANGED <<nextId, now, tasks, swaps, last, home, resolved, storeCall, profit, table, priceFeed, reconciled>>

\* Home.handleRunPrediction: the prediction service answered
handleRunPrediction(data) ==
    /\ predictionData' = data
    /\ UNCHANGED <<store, now, tasks, swaps, last, isCreatingPosition,
                   swapSuccessMessage, messageTimers, rendered, resolved, storeCall, profit, table, priceFeed, reconciled>>

\* Home renders: its handlers now close over the current state
Render ==
    /\ rendered # Snapshot
    /\ rendered' = Snapshot
    /\ UNCHANGED <<store, now, tasks, swaps, last, predictionData, isCreatingPosition,
                   swapSuccessMessage, messageTimers, resolved, storeCall, profit, table, priceFeed, reconciled>>

\* Home.handleSwapSuccess, the onSuccess handler of the Swap component, as the
\* last render made it; the swap form is enabled once there is a prediction
HomeSwapSuccess(transactionData) ==
    /\ swaps < MaxHomeSwaps
    /\ rendered.predictionData # NoPrediction
    /\ swaps' = swaps + 1
    /\ IF rendered.isCreatingPosition
       THEN UNCHANGED <<tasks, last, isCreatingPosition, swapSuccessMessage, messageTimers>>
       ELSE /\ isCreatingPosition' = TRUE
            /\ swapSuccessMessage' = "Swap completed successfully"
            /\ messageTimers' = TRUE
            /\ tasks' = Append(tasks,
                    NewTask("home", transactionData,
                            Pair(fromToken(rendered.predictionData),
                                 toToken(rendered.predictionData)),
                            rendered.positions))
            /\ last' = [swap |-> 0]
    /\ UNCHANGED <<store, now, predictionData, rendered, resolved, storeCall, profit, table, priceFeed, reconciled>>

\* a setTimeout(() => setSwapSuccessMessage(null)) callback runs; others may
\* still be pending
ClearMessage ==
    /\ messageTimers
    /\ messageTimers' \in BOOLEAN
    /\ swapSuccessMessage' = "null"
    /\ UNCHANGED <<store, now, tasks, swaps, last, predictionData, isCreatingPosition,
                   rendered, resolved, storeCall, profit, table, priceFeed, reconciled>>

\* the price resolver on its own
ResolvePrice(transactionData, tokens) ==
    /\ resolved' = [done |-> TRUE, transactionData |-> transactionData, tokens |-> tokens,
                    result |-> extractPriceFromSwap(transactionData, tokens)]
    /\ UNCHANGED <<store, now, tasks, swaps, last, home, storeCall, profit, table, priceFeed, reconciled>>

Next ==
    \/ \E transactionData \in Payloads, tokens \in TokenPairs :
          handleSwapSuccess(transactionData, tokens)
    \/ \E i \in 1..Len(tasks) : TimerFire(i)
    \/ \E i \in 1..Len(tasks), storageError \in BOOLEAN : StoreSettle(i, storageError)
    \/ \E side \in {"BUY", "SELL"}, openedAt \in {toISOString(1000), toISOString(2000)} :
          ManualOpen(side, Num(2000), "openedAt" :> openedAt)
    \/ \E i \in 1..Len(positions) :
          ManualClose(positions[i].id, toISOString(4000), Num(2200))

Spec == Init /\ [][Next]_vars

Predictions == {[prediction |-> "positive", tokenToBuy |-> "ETH"],
                [prediction |-> "negative", tokenToBuy |-> "ETH"],
                [prediction |-> "positive", tokenToBuy |-> "WBTC"]}

HomePayloads ==
    {("fromAmount" :> Str2000) @@ ("toAmount" :> Str1),
     ("fromAmount" :> Str1) @@ ("toAmount" :> Str2200),
     "fromAmount" :> Str2000}

NextHome ==
    \/ \E data \in Predictions : handleRunPrediction(data)
    \/ Render
    \/ \E transactionData \in HomePayloads : HomeSwapSuccess(transactionData)
    \/ \E i \in 1..Len(tasks) : TimerFire(i)
    \/ \E i \in 1..Len(tasks), storageError \in BOOLEAN : StoreSettle(i, storageError)
    \/ ClearMessage

SpecHome == Init /\ [][NextHome]_vars

\* Home without the timers that clear the message: they change the message
\* only, and no step depends on it.  A prediction is run while no
\* reconciliation is pending: a pending one keeps the tokens it was started with.
NextHomeLive ==
    \/ \E data \in Predictions : tasks = <<>> /\ handleRunPrediction(data)
    \/ Render
    \/ \E transactionData \in HomePayloads : HomeSwapSuccess(transactionData)
    \/ \E i \in 1..Len(tasks) : TimerFire(i)
    \/ \E i \in 1..Len(tasks), storageError \in BOOLEAN : StoreSettle(i, storageError)

\* the step of a timer that is due: TimerFire is the one action that moves
\* the clock, and it can whenever a task is scheduled
TimerDue ==
    /\ \E i \in 1..Len(tasks) : tasks[i].pc = "scheduled"
    /\ now' = now + TimerDelay

\* the event loop runs every timer that is due, the store settles every call
\* made to it, and React renders Home after every change of its state
SpecHomeLive ==
    /\ Init /\ [][NextHomeLive]_vars
    /\ WF_now(TimerDue)
    /\ WF_vars(\E i \in 1..Len(tasks), storageError \in BOOLEAN : StoreSettle(i, storageError))
    /\ WF_vars(Render)

PricePayloads ==
    {a @@ b : a \in Optional("fromAmount", AmountStrings),
              b \in Optional("toAmount", AmountStrings)}

PriceTokenPairs == TokenPairs \cup {Pair("WBTC", "USDC"), Pair("ETH", "ETH")}

NextPrice ==
    \E transactionData \in PricePayloads, tokens \in PriceTokenPairs :
        ResolvePrice(transactionData, tokens)

SpecPrice == Init /\ [][NextPrice]_vars

\* the Position Store called by any of its users: open, close and delete with
\* ids that are in the store, were deleted, or were never given out
StoreCall(op, id, error, post) ==
    [op |-> op, id |-> id, error |-> error, pre |-> positions, post |-> post]

StoreOpen(input) ==
    /\ nextId <= MaxRecords
    /\ positions' = openPosition(positions, nextId, input, now)
    /\ nextId' = nextId + 1
    /\ storeCall' = StoreCall("open", nextId, "none", positions')
    /\ UNCHANGED <<now, tasks, swaps, last, home, resolved, profit, table, priceFeed, reconciled>>

StoreClose(id, closedAt, closePriceUsd) ==
    /\ LET done == closePosition(positions, id, closedAt, closePriceUsd)
       IN /\ positions' = done.positions
          /\ storeCall' = StoreCall("close", id, done.error, done.positions)
                              @@ [closedAt |-> closedAt, closePriceUsd |-> closePriceUsd]
    /\ UNCHANGED <<nextId, now, tasks, swaps, last, home, resolved, profit, table, priceFeed, reconciled>>

StoreDelete(id) ==
    /\ positions' = deletePosition(positions, id)
    /\ storeCall' = StoreCall("delete", id, "none", positions')
    /\ UNCHANGED <<nextId, now, tasks, swaps, last, home, resolved, profit, table, priceFeed, reconciled>>

\* a BUY whose openedAt is left to the store, a SELL that brings its own
OpenInputs ==
    {[side |-> "BUY", priceUsd |-> Num(2000)],
     [side |-> "SELL", priceUsd |-> Num(2000), openedAt |-> toISOString(1000)]}

CloseInputs ==
    {[closedAt |-> toISOString(4000), closePriceUsd |-> Num(2200)],
     [closedAt |-> toISOString(4500), closePriceUsd |-> Num(1800)]}

StorePayloads == {GoodAmounts}

\* the users of the store open and close before a swap and while its
\* reconciliation is running, and delete at any time; one swap is reconciled
NextStore ==
    \/ \E input \in OpenInputs : last.swap = 0 /\ StoreOpen(input)
    \/ \E id \in 1..nextId, c \in CloseInputs :
          last.swap = 0 /\ StoreClose(id, c.closedAt, c.closePriceUsd)
    \/ \E id \in 1..nextId : StoreDelete(id)
    \/ \E transactionData \in StorePayloads, tokens \in {Pair("USDC", "ETH"), Pair("ETH", "USDC")} :
          swaps = 0 /\ handleSwapSuccess(transactionData, tokens)
    \/ \E i \in 1..Len(tasks) : TimerFire(i)
    \/ \E i \in 1..Len(tasks), storageError \in BOOLEAN : StoreSettle(i, storageError)

SpecStore == Init /\ [][NextStore]_vars

\* the P&L Calculator and the running figure of PositionsTable on their own,
\* for a position of either side and positive prices
Prices == {Num(2000), Num(2200), Num(1800), Num(1), Num(3000), Rat(1, 2), Rat(4001, 2), Num(2500)}

ComputeProfit(side, openPrice, closePrice) ==
    /\ profit' = [done |-> TRUE, side |-> side, openPrice |-> openPrice,
                  closePrice |-> closePrice,
                  stored |-> computePnL(side, openPrice, closePrice),
                  shown |-> [absolute |-> currentPnL([side |-> side, priceUsd |-> openPrice],
                                                     closePrice),
                             percent |-> currentPnLPercent([side |-> side, priceUsd |-> openPrice],
                                                           closePrice)]]
    /\ UNCHANGED <<store, now, tasks, swaps, last, home, resolved, storeCall, priceFeed, table, reconciled>>

NextProfit ==
    \E side \in {"BUY", "SELL"}, openPrice \in Prices, closePrice \in Prices :
        ComputeProfit(side, openPrice, closePrice)

SpecProfit == Init /\ [][NextProfit]_vars

-----------------------------------------------------------------------------
(* The price feed: the adapter eth-price-api and the Coinbase client       *)

UpperCase == <<"A", "B", "C", "D", "E", "F", "G", "H", "I", "J", "K", "L", "M",
               "N", "O", "P", "Q", "R", "S", "T", "U", "V", "W", "X", "Y", "Z">>
LowerCase == <<"a", "b", "c", "d", "e", "f", "g", "h", "i", "j", "k", "l", "m",
               "n", "o", "p", "q", "r", "s", "t", "u", "v", "w", "x", "y", "z">>

LowerOf(c) ==
    IF \E k \in 1..Len(UpperCase) : UpperCase[k] = c
    THEN LowerCase[CHOOSE k \in 1..Len(UpperCase) : UpperCase[k] = c]
    ELSE c

\* String.prototype.toLowerCase, character by character
toLowerCase(str) == [i \in 1..Len(str) |-> LowerOf(str[i])]

StrCoingecko == <<"c", "o", "i", "n", "g", "e", "c", "k", "o">>

\* the value compared as it is written
getApiProviderExact(env) ==
    IF Has(env, "NEXT_PUBLIC_API_ETH_SPOT") /\ env.NEXT_PUBLIC_API_ETH_SPOT = StrCoingecko
    THEN "coingecko" ELSE "coinbase"

\* process.env.NEXT_PUBLIC_API_ETH_SPOT?.toLowerCase() === "coingecko"
getApiProvider(env) ==
    IF Has(env, "NEXT_PUBLIC_API_ETH_SPOT")
       /\ toLowerCase(env.NEXT_PUBLIC_API_ETH_SPOT) = StrCoingecko
    THEN "coingecko" ELSE "coinbase"

ThrownBy(message) == [ok |-> FALSE, error |-> message]

SpotUrl == "https://api.coinbase.com/v2/prices/ETH-USD/spot"

\* response.ok
Ok(response) == response.status \in 200..299

\* the client without the check isNaN(price) || price <= 0
CoinbaseResultUnchecked(response, clock) ==
    IF response.kind = "rejected" THEN ThrownBy("Failed to fetch current ETH price")
    ELSE IF ~Ok(response) THEN ThrownBy("Failed to fetch current ETH price")
    ELSE IF ~response.body.json THEN ThrownBy("Failed to fetch current ETH price")
    ELSE IF ~(Has(response.body.value, "data") /\ TruthyStr(response.body.value.data, "amount"))
         THEN ThrownBy("Failed to fetch current ETH price")
    ELSE [ok |-> TRUE, price |-> parseFloat(response.body.value.data.amount),
          fetched_at |-> toISOString(clock), source |-> "coinbase_spot"]

\* what the Coinbase client makes of the response to its request
CoinbaseResult(response, clock) ==
    IF response.kind = "rejected" THEN ThrownBy("Failed to fetch current ETH price")
    ELSE IF ~Ok(response) THEN ThrownBy("Failed to fetch current ETH price")
    ELSE IF ~response.body.json THEN ThrownBy("Failed to fetch current ETH price")
    ELSE IF ~(Has(response.body.value, "data") /\ TruthyStr(response.body.value.data, "amount"))
         THEN ThrownBy("Failed to fetch current ETH price")
    ELSE LET price == parseFloat(response.body.value.data.amount)
         IN IF IsNaN(price) \/ Le0(price)
            THEN ThrownBy("Failed to fetch current ETH price")
            ELSE [ok |-> TRUE, price |-> price, fetched_at |-> toISOString(clock),
                  source |-> "coinbase_spot"]

\* a call of a provider: the calls it made in turn, the HTTP requests it
\* sent, and what it returned or threw
Outcome(calls, requests, result) ==
    [calls |-> calls, requests |-> requests, result |-> result]

\* coinbase-api getEthSpotPrice: one fetch, then the checks of the response
getCoinbaseSpotPrice(world, clock) ==
    Outcome(<<[provider |-> "coinbase", fn |-> "getEthSpotPrice"]>>,
            <<[method |-> "GET", url |-> SpotUrl]>>,
            CoinbaseResult(world.coinbase, clock))

\* coingecko-api getCurrentEthPriceWithTimestamp and getEthPriceWithFallback:
\* the client returns a price or fails
getCoinGeckoPrice(world) ==
    Outcome(<<[provider |-> "coingecko", fn |-> "getCurrentEthPriceWithTimestamp"]>>,
            <<>>, world.coingecko)

getCoinGeckoPriceWithFallback(args, world) ==
    Outcome(<<[provider |-> "coingecko", fn |-> "getEthPriceWithFallback", args |-> args]>>,
            <<>>, world.coingecko)

\* an adapter that turns to the other provider when the configured one fails
getEthSpotPriceOrOther(env, world, clock) ==
    LET first  == IF getApiProvider(env) = "coingecko" THEN getCoinGeckoPrice(world)
                  ELSE getCoinbaseSpotPrice(world, clock)
        second == IF getApiProvider(env) = "coingecko" THEN getCoinbaseSpotPrice(world, clock)
                  ELSE getCoinGeckoPrice(world)
    IN IF first.result.ok THEN first
       ELSE Outcome(first.calls \o second.calls, first.requests \o second.requests,
                    second.result)

\* eth-price-api getEthSpotPrice: the catch logs and throws the error again
getEthSpotPrice(env, world, clock) ==
    IF getApiProvider(env) = "coingecko" THEN getCoinGeckoPrice(world)
    ELSE getCoinbaseSpotPrice(world, clock)

\* a number is truthy unless it is 0 or NaN; a missing argument is undefined
TruthyArg(args, name) == Has(args, name) /\ ~IsNaN(args[name]) /\ args[name].n # 0

\* the manual price taken whenever it is truthy
getEthPriceWithFallbackAnySign(env, args, world, clock) ==
    IF TruthyArg(args, "manualPrice")
    THEN Outcome(<<>>, <<>>, [ok |-> TRUE, price |-> args.manualPrice,
                              fetched_at |-> toISOString(clock), source |-> "manual"])
    ELSE IF getApiProvider(env) = "coingecko" THEN getCoinGeckoPriceWithFallback(args, world)
    ELSE getCoinbaseSpotPrice(world, clock)

\* eth-price-api getEthPriceWithFallback(datetime, manualPrice)
getEthPriceWithFallback(env, args, world, clock) ==
    IF TruthyArg(args, "manualPrice") /\ Gt0(args.manualPrice)
    THEN Outcome(<<>>, <<>>, [ok |-> TRUE, price |-> args.manualPrice,
                              fetched_at |-> toISOString(clock), source |-> "manual"])
    ELSE IF getApiProvider(env) = "coingecko" THEN getCoinGeckoPriceWithFallback(args, world)
    ELSE getCoinbaseSpotPrice(world, clock)

FeedCall(fn, args, world, outcome) ==
    [env |-> priceFeed.env, fn |-> fn, args |-> args, world |-> world,
     calls |-> outcome.calls, requests |-> outcome.requests, result |-> outcome.result]

\* a caller (the positions table) asks the adapter for the spot price; the
\* adapter keeps nothing between calls, and one call is followed
GetEthSpotPrice(world) ==
    /\ priceFeed.fn = "none"
    /\ priceFeed' = FeedCall("getEthSpotPrice", EmptyObject, world,
                             getEthSpotPrice(priceFeed.env, world, now))
    /\ UNCHANGED <<store, now, tasks, swaps, last, home, resolved, storeCall, profit, table,
                   reconciled>>

GetEthPriceWithFallback(args, world) ==
    /\ priceFeed.fn = "none"
    /\ priceFeed' = FeedCall("getEthPriceWithFallback", args, world,
                             getEthPriceWithFallback(priceFeed.env, args, world, now))
    /\ UNCHANGED <<store, now, tasks, swaps, last, home, resolved, storeCall, profit, table,
                   reconciled>>

StrCoinbase == <<"c", "o", "i", "n", "b", "a", "s", "e">>

\* process.env: the variable unset, or set at build time
ProcessEnvs ==
    Optional("NEXT_PUBLIC_API_ETH_SPOT",
             {StrCoingecko, StrCoinbase, <<>>,
              <<"C", "o", "i", "n", "G", "e", "c", "k", "o">>,
              <<"C", "O", "I", "N", "G", "E", "C", "K", "O">>,
              <<"C", "O", "I", "N", "B", "A", "S", "E">>,
              <<"c", "o", "i", "n", "g", "e", "c", "k", "o", " ">>,
              <<"g", "e", "c", "k", "o">>})

Json(value) == [json |-> TRUE, value |-> value]

\* response bodies: not JSON, {}, {data: {}}, {data: {amount: "..."}}
Bodies ==
    {[json |-> FALSE], Json(EmptyObject), Json("data" :> EmptyObject)}
        \cup {Json("data" :> ("amount" :> a)) : a \in AmountStrings}

\* the request fails, or is answered
Responses ==
    {[kind |-> "rejected"]}
        \cup {[kind |-> "response", status |-> status, body |-> body] :
                 status \in {200, 201, 404, 500}, body \in Bodies}

CoinGeckoResults ==
    {ThrownBy("PriceFeedError"),
     [ok |-> TRUE, price |-> Num(2100), fetched_at |-> toISOString(5000),
      source |-> "coingecko"]}

\* what each provider would do if it were asked
Worlds == {[coinbase |-> r, coingecko |-> g] : r \in Responses, g \in CoinGeckoResults}

ManualPrices == {Num(2500), Rat(1, 2), Num(0), Num(-5), NaN}

FallbackArgs ==
    {d @@ m : d \in Optional("datetime", {toISOString(1000)}),
              m \in Optional("manualPrice", ManualPrices)}

InitFeed == InitApp /\ \E env \in ProcessEnvs : priceFeed = [env |-> env, fn |-> "none"]

NextFeed ==
    \/ \E world \in Worlds : GetEthSpotPrice(world)
    \/ \E args \in FallbackArgs, world \in Worlds : GetEthPriceWithFallback(args, world)

SpecFeed == InitFeed /\ [][NextFeed]_vars

-----------------------------------------------------------------------------
(* Swaps reconciled in turn, from an empty store, by a caller that hands    *)
(* handleSwapSuccess the store's own openPosition, closePosition, listOpen  *)

\* the next swap completes once the reconciliation of the one before is over
SwapInTurn(transactionData, tokens) ==
    /\ swaps < MaxTurns
    /\ tasks = <<>>
    /\ swaps' = swaps + 1
    /\ tasks' = Append(tasks, NewTask("direct", transactionData, tokens, <<>>))
    /\ last' = [swap |-> 0]
    /\ UNCHANGED <<store, now, home, resolved, storeCall, profit, table, priceFeed, reconciled>>

\* good amounts with and without a timestamp, and a payload without toAmount
TurnPayloads ==
    {GoodAmounts, GoodAmounts @@ ("timestamp" :> Seconds(1)), "fromAmount" :> Str2000}

NextTurns ==
    \/ \E transactionData \in TurnPayloads, tokens \in TokenPairs :
          SwapInTurn(transactionData, tokens)
    \/ \E i \in 1..Len(tasks) : TimerFire(i)
    \/ \E i \in 1..Len(tasks), storageError \in BOOLEAN : StoreSettle(i, storageError)

SpecTurns == Init /\ [][NextTurns]_vars

-----------------------------------------------------------------------------
(* PositionsTable: the delete button of a row and the confirmation modal    *)
(* (state updates of one handler are applied together, and the table is     *)
(* rendered again before the next event)                                    *)

\* the row of the position is rendered and its delete button is not disabled
RowButtonEnabled(position) ==
    /\ \E i \in 1..Len(positions) : positions[i] = position
    /\ isDeleting # position.id

\* {showDeleteModal && positionToDelete && (...)}: the modal is rendered, and
\* its Cancel and Delete buttons are not disabled
ModalButtonsEnabled ==
    /\ showDeleteModal /\ positionToDelete # NullPosition
    /\ isDeleting # positionToDelete.id

handleDeleteClick(position) ==
    /\ RowButtonEnabled(position)
    /\ positionToDelete' = position
    /\ showDeleteModal' = TRUE
    /\ UNCHANGED <<store, now, tasks, swaps, last, home, resolved, storeCall, profit, priceFeed,
                   reconciled, isDeleting, deleting, lastDelete>>

\* handleDeletePosition up to its await
handleDeletePosition ==
    /\ ModalButtonsEnabled
    /\ Len(deleting) < MaxDeleting
    /\ isDeleting' = positionToDelete.id
    /\ deleting' = Append(deleting, positionToDelete.id)
    /\ UNCHANGED <<store, now, tasks, swaps, last, home, resolved, storeCall, profit, priceFeed,
                   reconciled, showDeleteModal, positionToDelete, lastDelete>>

handleCancelDelete ==
    /\ ModalButtonsEnabled
    /\ showDeleteModal' = FALSE
    /\ positionToDelete' = NullPosition
    /\ isDeleting' = NullId
    /\ UNCHANGED <<store, now, tasks, swaps, last, home, resolved, storeCall, profit, priceFeed,
                   reconciled, deleting, lastDelete>>

\* handleDeletePosition from its await on: deletePosition of the store context
\* fulfils after removing the record, or rejects
DeleteSettle(i, storageError) ==
    /\ IF storageError
       THEN UNCHANGED <<positions, showDeleteModal, positionToDelete>>
       ELSE /\ positions' = deletePosition(positions, deleting[i])
            /\ showDeleteModal' = FALSE
            /\ positionToDelete' = NullPosition
    /\ isDeleting' = NullId
    /\ deleting' = Remove(deleting, i)
    /\ storeCall' = StoreCall("delete", deleting[i],
                              IF storageError THEN "StorageError" ELSE "none", positions')
    /\ lastDelete' = [done |-> TRUE, id |-> deleting[i], failed |-> storageError,
                      calls |-> Len(deleting),
                      isDeleting |-> isDeleting', showDeleteModal |-> showDeleteModal',
                      positionToDelete |-> positionToDelete']
    /\ UNCHANGED <<nextId, now, tasks, swaps, last, home, resolved, profit, priceFeed, reconciled>>

\* positions are entered, and the user clicks, confirms and cancels while
\* calls of deletePosition settle
NextTable ==
    \/ \E input \in OpenInputs : StoreOpen(input)
    \/ \E i \in 1..Len(positions) : handleDeleteClick(positions[i])
    \/ handleDeletePosition
    \/ handleCancelDelete
    \/ \E i \in 1..Len(deleting), storageError \in BOOLEAN : DeleteSettle(i, storageError)

SpecTable == Init /\ [][NextTable]_vars

-----------------------------------------------------------------------------
(* Properties *)

Finished == last.swap > 0

BuySwap  == Finished /\ last.via = "direct" /\ IsUSDCToETH(last.tokens)
SellSwap == Finished /\ last.via = "direct" /\ IsETHToUSDC(last.tokens)

\* both amounts are there and are numbers above 0
AmountsPositive(td) ==
    /\ TruthyStr(td, "fromAmount") /\ Gt0(parseFloat(td.fromAmount))
    /\ TruthyStr(td, "toAmount") /\ Gt0(parseFloat(td.toAmount))

\* price = numerator / denominator, stated without dividing
IsRatio(price, numerator, denominator) ==
    ~IsNaN(price) /\ NumMul(price, parseFloat(denominator)) = parseFloat(numerator)

OpenOn(ps, side) == {i \in 1..Len(ps) : ps[i].status = "OPEN" /\ ps[i].side = side}

OldestOn(ps, side) ==
    {i \in OpenOn(ps, side) :
        \A j \in OpenOn(ps, side) : getTime(ps[i].openedAt) <= getTime(ps[j].openedAt)}

DistinctOpenedAt(ps, side) ==
    \A i, j \in OpenOn(ps, side) : i # j => ps[i].openedAt # ps[j].openedAt

\* the time the swap carries: its timestamp, else its blockTimestamp, in
\* seconds; else the time of the run
ResolvedMs(td, at) ==
    IF Has(td, "timestamp") /\ td.timestamp.type = "number" /\ td.timestamp.v # 0
        THEN td.timestamp.v * 1000
    ELSE IF Has(td, "blockTimestamp") /\ td.blockTimestamp.type = "number"
                                      /\ td.blockTimestamp.v # 0
        THEN td.blockTimestamp.v * 1000
    ELSE at

\* post is pre with one record more, an OPEN one of that side
Opened(pre, post, side) ==
    /\ Len(post) = Len(pre) + 1
    /\ SubSeq(post, 1, Len(pre)) = pre
    /\ post[Len(post)].side = side
    /\ post[Len(post)].status = "OPEN"
    /\ \A i \in 1..Len(pre) : pre[i].id # post[Len(post)].id

\* post is pre with record i closed, and nothing else changed
Closed(pre, post, i) ==
    /\ Len(post) = Len(pre)
    /\ \A j \in 1..Len(pre) : j # i => post[j] = pre[j]
    /\ pre[i].status = "OPEN"
    /\ post[i].status = "CLOSED"
    /\ post[i].id = pre[i].id
    /\ post[i].side = pre[i].side
    /\ post[i].priceUsd = pre[i].priceUsd
    /\ post[i].openedAt = pre[i].openedAt

Call == last.out.call

\* C1: a USDC->ETH swap with both amounts above 0, handled while the store has
\* no OPEN SELL position, calls openPosition once, with side BUY and
\* priceUsd = fromAmount / toAmount, and does not call closePosition; unless
\* the store fails, the store then holds exactly one record more, an OPEN BUY
\* at that price.
C1_BuyOpensBuy ==
    (BuySwap /\ AmountsPositive(last.transactionData) /\ OpenOn(last.pre, "SELL") = {})
    => /\ Call.fn = "openPosition"
       /\ Call.input.side = "BUY"
       /\ IsRatio(Call.input.priceUsd, last.transactionData.fromAmount,
                  last.transactionData.toAmount)
       /\ IF last.error = "none"
          THEN /\ Opened(last.pre, last.post, "BUY")
               /\ last.post[Len(last.post)].priceUsd = Call.input.priceUsd
          ELSE last.post = last.pre

C1_Witness ==
    /\ BuySwap /\ AmountsPositive(last.transactionData) /\ OpenOn(last.pre, "SELL") = {}
    /\ last.error = "none"
    /\ OpenOn(last.pre, "BUY") # {}
    /\ Len(last.post) = Len(last.pre) + 1

\* C2: an ETH->USDC swap with both amounts above 0, handled while the store
\* has no OPEN BUY position, calls openPosition once, with side SELL and
\* priceUsd = toAmount / fromAmount, and does not call closePosition; unless
\* the store fails, the store then holds exactly one record more, an OPEN SELL
\* at that price.
C2_SellOpensSell ==
    (SellSwap /\ AmountsPositive(last.transactionData) /\ OpenOn(last.pre, "BUY") = {})
    => /\ Call.fn = "openPosition"
       /\ Call.input.side = "SELL"
       /\ IsRatio(Call.input.priceUsd, last.transactionData.toAmount,
                  last.transactionData.fromAmount)
       /\ IF last.error = "none"
          THEN /\ Opened(last.pre, last.post, "SELL")
               /\ last.post[Len(last.post)].priceUsd = Call.input.priceUsd
          ELSE last.post = last.pre

C2_Witness ==
    /\ SellSwap /\ AmountsPositive(last.transactionData) /\ OpenOn(last.pre, "BUY") = {}
    /\ last.error = "none"
    /\ OpenOn(last.pre, "SELL") # {}
    /\ Len(last.post) = Len(last.pre) + 1

\* C3: with one or more OPEN SELL positions of pairwise distinct openedAt in
\* the store (and whatever else), a USDC->ETH swap with both amounts above 0
\* calls closePosition for the SELL position of least openedAt, with the price
\* fromAmount / toAmount and the time the swap resolves to, and calls
\* openPosition not at all; unless the store fails, exactly that record is
\* closed and every other record is as before.
C3_BuyClosesOldestSell ==
    (/\ BuySwap /\ AmountsPositive(last.transactionData)
     /\ OpenOn(last.pre, "SELL") # {}
     /\ DistinctOpenedAt(last.pre, "SELL"))
    => /\ Call.fn = "closePosition"
       /\ \E i \in OldestOn(last.pre, "SELL") :
             /\ Call.id = last.pre[i].id
             /\ IF last.error = "none"
                THEN /\ Closed(last.pre, last.post, i)
                     /\ last.post[i].closePriceUsd = Call.closePriceUsd
                     /\ last.post[i].closedAt = Call.closedAt
                ELSE last.post = last.pre
       /\ IsRatio(Call.closePriceUsd, last.transactionData.fromAmount,
                  last.transactionData.toAmount)
       /\ getTime(Call.closedAt) = ResolvedMs(last.transactionData, last.at)

C3_Witness ==
    /\ BuySwap /\ AmountsPositive(last.transactionData)
    /\ Cardinality(OpenOn(last.pre, "SELL")) >= 2
    /\ DistinctOpenedAt(last.pre, "SELL")
    /\ last.error = "none"
    /\ 1 \notin OldestOn(last.pre, "SELL")
    /\ OpenOn(last.post, "SELL") # {}

\* C4: an ETH->USDC swap with both amounts above 0, handled while the store
\* has an OPEN BUY position, calls closePosition for an OPEN BUY position of
\* least openedAt (never for a SELL position), with closePriceUsd =
\* toAmount / fromAmount and closedAt = the time the swap resolves to, and
\* calls openPosition not at all: no SELL position appears.
C4_SellClosesOldestBuy ==
    (SellSwap /\ AmountsPositive(last.transactionData) /\ OpenOn(last.pre, "BUY") # {})
    => /\ Call.fn = "closePosition"
       /\ \E i \in OldestOn(last.pre, "BUY") :
             /\ Call.id = last.pre[i].id
             /\ last.pre[i].side = "BUY"
             /\ IF last.error = "none"
                THEN /\ Closed(last.pre, last.post, i)
                     /\ last.post[i].closePriceUsd = Call.closePriceUsd
                     /\ last.post[i].closedAt = Call.closedAt
                ELSE last.post = last.pre
       /\ IsRatio(Call.closePriceUsd, last.transactionData.toAmount,
                  last.transactionData.fromAmount)
       /\ getTime(Call.closedAt) = ResolvedMs(last.transactionData, last.at)
       /\ Cardinality(OpenOn(last.post, "SELL")) = Cardinality(OpenOn(last.pre, "SELL"))

C4_Witness ==
    /\ SellSwap /\ AmountsPositive(last.transactionData)
    /\ last.error = "none"
    /\ \E i \in OpenOn(last.pre, "BUY"), j \in OpenOn(last.pre, "SELL") :
          getTime(last.pre[j].openedAt) < getTime(last.pre[i].openedAt)
    /\ Cardinality(OpenOn(last.post, "BUY")) < Cardinality(OpenOn(last.pre, "BUY"))

\* C5: through Home, from an empty store: the swap {fromAmount "2000",
\* toAmount "1"} USDC->ETH leaves one OPEN BUY position with priceUsd 2000; a
\* later swap {fromAmount "1", toAmount "2200"} ETH->USDC, handled by a Home
\* that has rendered that position, closes it with closePriceUsd 2200,
\* profitLoss 200 and profitLossPercent 10, and the store still holds one record.
C5_HomeBuyThenSell ==
    /\ (/\ Finished /\ last.via = "home" /\ last.error = "none"
        /\ IsUSDCToETH(last.tokens)
        /\ last.transactionData = ("fromAmount" :> Str2000) @@ ("toAmount" :> Str1)
        /\ last.pre = <<>>)
       => /\ Len(last.post) = 1
          /\ last.post[1].side = "BUY"
          /\ last.post[1].status = "OPEN"
          /\ last.post[1].priceUsd = Num(2000)
    /\ (/\ Finished /\ last.via = "home" /\ last.error = "none"
        /\ IsETHToUSDC(last.tokens)
        /\ last.transactionData = ("fromAmount" :> Str1) @@ ("toAmount" :> Str2200)
        /\ Len(last.pre) = 1
        /\ last.captured = last.pre
        /\ last.pre[1].side = "BUY"
        /\ last.pre[1].status = "OPEN"
        /\ last.pre[1].priceUsd = Num(2000))
       => /\ Len(last.post) = 1
          /\ last.post[1].id = last.pre[1].id
          /\ last.post[1].status = "CLOSED"
          /\ last.post[1].closePriceUsd = Num(2200)
          /\ last.post[1].profitLoss = Num(200)
          /\ last.post[1].profitLossPercent = Num(10)

\* C6: a USDC->ETH or ETH->USDC swap whose price resolves to a value above 0
\* makes exactly one store call, openPosition or closePosition; unless the
\* store fails, exactly one record is added or exactly one record is changed.
C6_OneStoreCall ==
    (/\ Finished /\ last.via = "direct"
     /\ IsUSDCToETH(last.tokens) \/ IsETHToUSDC(last.tokens)
     /\ LET r == extractPriceFromSwap(last.transactionData, last.tokens)
        IN ~r.threw /\ Gt0(r.price))
    => /\ Call.fn \in {"openPosition", "closePosition"}
       /\ Call.fn = "openPosition" <=> last.out.kind = "open"
       /\ Call.fn = "closePosition" <=> last.out.kind = "close"
       /\ IF last.error # "none" THEN last.post = last.pre
          ELSE IF Call.fn = "openPosition"
               THEN Len(last.post) = Len(last.pre) + 1
                    /\ SubSeq(last.post, 1, Len(last.pre)) = last.pre
               ELSE Len(last.post) = Len(last.pre)
                    /\ Cardinality({i \in 1..Len(last.pre) : last.post[i] # last.pre[i]}) = 1

C6_Witness ==
    /\ SellSwap
    /\ Call.fn = "openPosition"
    /\ last.error = "none"
    /\ last.pre = <<>>
    /\ Len(last.post) = 1

\* C7: a swap of any other pair of tokens is ignored: no store call, and the
\* error callback is not invoked, whatever the amounts.
C7_OtherPairIgnored ==
    (Finished /\ last.via = "direct"
        /\ ~IsUSDCToETH(last.tokens) /\ ~IsETHToUSDC(last.tokens))
    => /\ Call.fn = "none"
       /\ last.post = last.pre
       /\ last.onError = <<>>

\* C8: a USDC->ETH swap without toAmount ends in the error callback, once; the
\* success callback is not invoked, no store call is made and the store is as
\* it was.
C8_MissingToAmount ==
    (BuySwap /\ ~Has(last.transactionData, "toAmount"))
    => /\ Len(last.onError) = 1
       /\ last.onSuccess = <<>>
       /\ Call.fn = "none"
       /\ last.post = last.pre

C8_Witness ==
    /\ BuySwap /\ ~Has(last.transactionData, "toAmount")
    /\ Has(last.transactionData, "fromAmount")
    /\ Has(last.transactionData, "price")
    /\ last.onError # <<>>
    /\ last.pre # <<>>

\* C9: the price resolver throws whenever the pair is neither USDC->ETH nor
\* ETH->USDC, or fromAmount or toAmount is missing or not a number above 0.
C9_ResolverRejects ==
    (/\ resolved.done
     /\ \/ ~IsUSDCToETH(resolved.tokens) /\ ~IsETHToUSDC(resolved.tokens)
        \/ ~AmountsPositive(resolved.transactionData))
    => resolved.result.threw

\* C10: a reconciliation never queries the price feed; the price of every
\* store call is the quotient of the swap's own amounts; and a swap whose
\* amounts are missing or are not numbers above 0 ends in the error callback
\* without a store call.
C10_NoFallback ==
    (Finished /\ last.via = "direct")
    => /\ ~last.out.feed
       /\ Call.fn = "openPosition" =>
             IF IsUSDCToETH(last.tokens)
             THEN IsRatio(Call.input.priceUsd, last.transactionData.fromAmount,
                          last.transactionData.toAmount)
             ELSE IsRatio(Call.input.priceUsd, last.transactionData.toAmount,
                          last.transactionData.fromAmount)
       /\ Call.fn = "closePosition" =>
             IF IsUSDCToETH(last.tokens)
             THEN IsRatio(Call.closePriceUsd, last.transactionData.fromAmount,
                          last.transactionData.toAmount)
             ELSE IsRatio(Call.closePriceUsd, last.transactionData.toAmount,
                          last.transactionData.fromAmount)
       /\ ~AmountsPositive(last.transactionData) =>
             Call.fn = "none" /\ Len(last.onError) = 1

\* C11: whatever fails during a reconciliation (the price resolver throws, or
\* openPosition or closePosition fails), the failure reaches the caller through
\* the error callback only: onError is called once, onSuccess is not, the store
\* is left as it was, and the promise handleSwapSuccess returned is fulfilled;
\* it is fulfilled already while the task is pending, so it never rejects.
C11_FailuresCaught ==
    /\ \A i \in 1..Len(tasks) : tasks[i].promise = "fulfilled"
    /\ (Finished /\ (extractPriceFromSwap(last.transactionData, last.tokens).threw
                      \/ last.error # "none"))
          => /\ last.promise = "fulfilled"
             /\ Len(last.onError) = 1
             /\ last.onSuccess = <<>>
             /\ last.post = last.pre
             /\ positions = last.pre

\* a closePosition call failed in the store and the failure went to onError
C11_Witness ==
    /\ Finished /\ last.via = "direct"
    /\ Call.fn = "closePosition"
    /\ last.error = "StorageError"
    /\ last.promise = "fulfilled"
    /\ Len(last.onError) = 1

\* C12: a swap-success invocation made while an earlier reconciliation is still
\* running is dropped: the reconciliation it would start never calls
\* openPosition or closePosition.
C12_SecondDropped ==
    /\ \A i \in 1..Len(tasks) : tasks[i].overlapped => tasks[i].pc = "scheduled"
    /\ (Finished /\ last.overlapped) => Call.fn = "none"

\* the store calls of one reconciliation changed at most one record: post is
\* pre with one record added, or with one record changed, or pre itself
AtMostOneMutation(pre, post) ==
    \/ post = pre
    \/ Len(post) = Len(pre) + 1 /\ SubSeq(post, 1, Len(pre)) = pre
    \/ /\ Len(post) = Len(pre)
       /\ Cardinality({i \in 1..Len(pre) : post[i] # pre[i]}) = 1

\* C13: at most one reconciliation is in flight at any time, and the
\* reconciliation of one swap completion event changes the Position Store at
\* most once, whatever the order of invocations, renders, timers and store calls.
C13_SingleInFlight ==
    /\ Len(tasks) <= 1
    /\ Finished => AtMostOneMutation(last.pre, last.post)

\* the record a call of the store's close was aimed at, before and after it
ClosedIndex == IndexOf(storeCall.pre, storeCall.id)
CloseCalled == storeCall.op = "close" /\ ClosedIndex # 0

\* C14: close is not idempotent.  A close of an OPEN record succeeds and sets
\* closePriceUsd and closedAt as given; every close of a record that is CLOSED
\* fails with AlreadyClosed and leaves the store, and so the closePriceUsd,
\* closedAt, profitLoss and profitLossPercent of the first close, as they were.
C14_CloseOnce ==
    CloseCalled =>
        IF storeCall.pre[ClosedIndex].status = "OPEN"
        THEN /\ storeCall.error = "none"
             /\ storeCall.post[ClosedIndex].status = "CLOSED"
             /\ storeCall.post[ClosedIndex].closePriceUsd = storeCall.closePriceUsd
             /\ storeCall.post[ClosedIndex].closedAt = storeCall.closedAt
        ELSE /\ storeCall.error = "AlreadyClosed"
             /\ storeCall.post = storeCall.pre

\* a second close, with another price and time, was refused
C14_Witness ==
    /\ CloseCalled
    /\ storeCall.error = "AlreadyClosed"
    /\ storeCall.pre[ClosedIndex].status = "CLOSED"
    /\ storeCall.pre[ClosedIndex].closePriceUsd # storeCall.closePriceUsd
    /\ storeCall.pre[ClosedIndex].closedAt # storeCall.closedAt
    /\ storeCall.post[ClosedIndex].closePriceUsd = storeCall.pre[ClosedIndex].closePriceUsd

\* C15: in every state of the Position Store a record is CLOSED exactly when
\* both its closePriceUsd and its closedAt are set; no record has one of the
\* two without the other, and no CLOSED record lacks either.
C15_ClosedIffBothSet ==
    \A i \in 1..Len(positions) :
        /\ positions[i].status \in {"OPEN", "CLOSED"}
        /\ positions[i].status = "CLOSED"
              <=> (Has(positions[i], "closePriceUsd") /\ Has(positions[i], "closedAt"))
        /\ Has(positions[i], "closePriceUsd") <=> Has(positions[i], "closedAt")

\* the store holds a record that was closed next to one that is open, and the
\* last call closed a record
C15_Witness ==
    /\ storeCall.op = "close" /\ storeCall.error = "none"
    /\ positions = storeCall.post
    /\ \E i, j \in 1..Len(positions) :
          /\ positions[i].status = "CLOSED" /\ Has(positions[i], "closedAt")
          /\ positions[j].status = "OPEN" /\ ~Has(positions[j], "closePriceUsd")

\* C16: in every step, whatever operation takes it (open, close, delete or a
\* reconciliation), a record that enters the store is OPEN, a record that stays
\* in the store keeps its id, side and priceUsd, and a record that is CLOSED
\* stays CLOSED: the status changes at most once, from OPEN to CLOSED.
C16_StatusOnceFieldsFixed ==
    [][ /\ \A j \in 1..Len(positions') :
              (\A i \in 1..Len(positions) : positions[i].id # positions'[j].id)
                  => positions'[j].status = "OPEN"
        /\ \A i \in 1..Len(positions), j \in 1..Len(positions') :
              positions[i].id = positions'[j].id
                  => /\ positions'[j].side = positions[i].side
                     /\ positions'[j].priceUsd = positions[i].priceUsd
                     /\ positions[i].status = "CLOSED" => positions'[j].status = "CLOSED"
                     /\ positions'[j].status \in {"OPEN", "CLOSED"} ]_vars

\* the reconciliation of a swap closed a record that was OPEN, after a record
\* before it had been deleted
C16_Witness ==
    /\ Finished /\ Call.fn = "closePosition" /\ last.error = "none"
    /\ positions = last.post
    /\ storeCall.op = "delete" /\ Len(storeCall.post) < Len(storeCall.pre)
    /\ \E i \in 1..Len(positions) :
          /\ positions[i].id = Call.id
          /\ positions[i].status = "CLOSED"
          /\ last.pre[i].status = "OPEN"
          /\ positions[i].priceUsd = last.pre[i].priceUsd

\* C17: the Position Store never holds two records with the same id, and an
\* open gives out an id that no record has or had before (every id held is
\* below the next one to give out, which never goes down).
C17_UniqueIds ==
    /\ \A i, j \in 1..Len(positions) : positions[i].id = positions[j].id => i = j
    /\ \A i \in 1..Len(positions) : positions[i].id < nextId
    /\ storeCall.op = "open"
          => \A i \in 1..Len(storeCall.pre) : storeCall.pre[i].id # storeCall.id

\* a record was deleted and a record was opened after it: the new record has
\* a higher id than there are records, so the id of the deleted one is not reused
C17_Witness ==
    /\ storeCall.op = "open"
    /\ positions = storeCall.post
    /\ Len(storeCall.pre) < storeCall.id - 1
    /\ positions[Len(positions)].id = storeCall.id
    /\ storeCall.id > Len(positions)

\* C18: a close of an id that no record of the store has (it was never given
\* out, or its record was deleted) fails with PositionNotFound and leaves all
\* records as they were; so does the closePosition call of a reconciliation
\* whose record was deleted in the meantime (unless the store itself fails).
C18_CloseUnknownId ==
    /\ (storeCall.op = "close" /\ ClosedIndex = 0)
          => storeCall.error = "PositionNotFound" /\ storeCall.post = storeCall.pre
    /\ (Finished /\ Call.fn = "closePosition" /\ IndexOf(last.pre, Call.id) = 0)
          => /\ last.error \in {"PositionNotFound", "StorageError"}
             /\ last.post = last.pre

\* a record was deleted and a close of its id was refused
C18_Witness ==
    /\ storeCall.op = "close"
    /\ storeCall.id < nextId
    /\ ClosedIndex = 0
    /\ storeCall.pre # <<>>
    /\ storeCall.error = "PositionNotFound"

\* x = y - z, stated on the fractions without subtracting
IsDifference(x, y, z) ==
    ~IsNaN(x) /\ x.n * (y.d * z.d) = (y.n * z.d - z.n * y.d) * x.d

ProfitCase(side, openPrice, closePrice) ==
    profit.done /\ profit.side = side /\ profit.openPrice = Num(openPrice)
                /\ profit.closePrice = Num(closePrice)

\* C19: computePnL gives absolute = closePrice - openPrice for BUY and
\* openPrice - closePrice for SELL, and percent = absolute / openPrice * 100 with
\* the sign of absolute.  BUY 2000 -> 2200 and SELL 2000 -> 1800 give +200 and
\* +10; BUY 2000 -> 1800 and SELL 2000 -> 2200 give -200 and -10.  The running
\* figure PositionsTable shows for an OPEN position is the same.
C19_ProfitAndLoss ==
    profit.done =>
        /\ IF profit.side = "BUY"
           THEN IsDifference(profit.stored.absolute, profit.closePrice, profit.openPrice)
           ELSE IsDifference(profit.stored.absolute, profit.openPrice, profit.closePrice)
        /\ ~IsNaN(profit.stored.percent)
        /\ NumMul(profit.stored.percent, profit.openPrice)
              = NumMul(profit.stored.absolute, Num(100))
        /\ (profit.stored.percent.n > 0) = (profit.stored.absolute.n > 0)
        /\ (profit.stored.percent.n < 0) = (profit.stored.absolute.n < 0)
        /\ (ProfitCase("BUY", 2000, 2200) \/ ProfitCase("SELL", 2000, 1800))
              => profit.stored = [absolute |-> Num(200), percent |-> Num(10)]
        /\ (ProfitCase("BUY", 2000, 1800) \/ ProfitCase("SELL", 2000, 2200))
              => profit.stored = [absolute |-> Num(-200), percent |-> Num(-10)]
        /\ profit.shown = profit.stored

\* a SELL position opened at 2000 and closed at 1800 made 200, 10 percent
C19_Witness ==
    /\ ProfitCase("SELL", 2000, 1800)
    /\ profit.stored.absolute = Num(200)
    /\ profit.stored.percent = Num(10)

\* the timestamp the last reconciliation handed to the store
UsedTimestamp ==
    IF Call.fn = "openPosition" THEN Call.input.openedAt ELSE Call.closedAt

IsNumberField(td, field) == Has(td, field) /\ td[field].type = "number"

\* the priority order read with "present" as "is a number", 0 included
PresentMs(td, at) ==
    IF IsNumberField(td, "timestamp") THEN td.timestamp.v * 1000
    ELSE IF IsNumberField(td, "blockTimestamp") THEN td.blockTimestamp.v * 1000
    ELSE at

\* C20 as stated: the openedAt or closedAt handed to the store is the payload's
\* numeric timestamp if present, else its numeric blockTimestamp, else the
\* time of the run; an embedded value is seconds and is multiplied by 1000.
C20_TimestampPriorityAsStated ==
    (Finished /\ last.via = "direct" /\ Call.fn # "none")
        => getTime(UsedTimestamp) = PresentMs(last.transactionData, last.at)

\* C20: the openedAt or closedAt handed to the store is the payload's timestamp
\* if that is a number other than 0, else its blockTimestamp if that is a
\* number other than 0, else the time of the run; an embedded value is seconds
\* and is multiplied by 1000 before it is formatted.
C20_TimestampPriority ==
    (Finished /\ last.via = "direct" /\ Call.fn # "none")
        => getTime(UsedTimestamp) = ResolvedMs(last.transactionData, last.at)

\* a swap whose timestamp is 0 and whose blockTimestamp is 4 s opened a
\* position at 4000 ms
C20_Witness ==
    /\ Finished /\ last.via = "direct" /\ Call.fn = "openPosition"
    /\ IsNumberField(last.transactionData, "timestamp")
    /\ last.transactionData.timestamp.v = 0
    /\ IsNumberField(last.transactionData, "blockTimestamp")
    /\ getTime(Call.input.openedAt) = 4 * 1000

-----------------------------------------------------------------------------
(* C21: the reconciliation is deferred *)

\* a task that was scheduled before the step and is not any more
Started(i) ==
    /\ tasks[i].pc = "scheduled"
    /\ \A j \in 1..Len(tasks') : tasks'[j] # tasks[i]

C21_Step ==
    /\ Len(tasks') > Len(tasks) =>
            LET t == tasks'[Len(tasks')]
            IN /\ t.pc = "scheduled" /\ t.promise = "fulfilled"
               /\ t.seen = <<>> /\ t.out.kind = "none"
               /\ positions' = positions
               /\ last'.swap = 0
               /\ t.via = "home" => /\ swapSuccessMessage' = "Swap completed successfully"
                                    /\ isCreatingPosition'
    /\ \A i \in 1..Len(tasks) :
            Started(i) => /\ Len(tasks') <= Len(tasks)
                          /\ now' >= now + TimerDelay
    /\ (positions' # positions /\ tasks # <<>>) =>
            \E i \in 1..Len(tasks) : tasks[i].pc = "awaiting" /\ tasks[i].at > 0
    /\ (last' # last /\ last'.swap > 0) =>
            \E i \in 1..Len(tasks) : /\ tasks[i].swap = last'.swap
                                     /\ Len(tasks') < Len(tasks)

\* C21: the step in which handleSwapSuccess is called only schedules the task:
\* its promise is fulfilled, nothing was listed, no store call was made, the
\* store is unchanged and no callback ran, and Home has set its swap-success
\* message in that step; the task lists the open positions, calls the store
\* and reports back in later steps, the first of them TimerDelay later; the
\* store changes only for a task that has gone through that first step.
C21_Deferred == [][C21_Step]_vars

\* Home's handler has returned: the task is scheduled and has done nothing,
\* and the swap-success message is up
C21_Witness ==
    \E i \in 1..Len(tasks) :
        /\ tasks[i].via = "home" /\ tasks[i].pc = "scheduled"
        /\ tasks[i].promise = "fulfilled" /\ tasks[i].seen = <<>>
        /\ positions = tasks[i].captured
        /\ swapSuccessMessage = "Swap completed successfully"

-----------------------------------------------------------------------------
(* C22: the outcome handed to the success callback *)

Reported == last.onSuccess[1]

\* the store changed the way the outcome says
MutationMatches(pre, post, outcome) ==
    IF outcome.action = "opened"
    THEN Opened(pre, post, outcome.side)
    ELSE \E i \in 1..Len(pre) : pre[i].side = outcome.side /\ Closed(pre, post, i)

\* the message Home shows names the action of the outcome
MessageStates(message, outcome) ==
    IF outcome.action = "opened"
    THEN message = "BUY position automatically created"
    ELSE message = "Position automatically closed"

\* the part of C22 that is about the handler alone
C22_HandlerOutcome ==
    (Finished /\ last.onSuccess # <<>>) =>
        /\ Len(last.onSuccess) = 1 /\ last.onError = <<>>
        /\ last.error = "none" /\ Call.fn # "none"
        /\ MutationMatches(last.pre, last.post, Reported)

\* C22: the success callback is called only after the store call succeeded,
\* with the action and side of the change the store made (a record of that
\* side opened, or an OPEN record of that side closed), and the message Home
\* then shows, until it is cleared, names the same action.
C22_OutcomeReported ==
    /\ C22_HandlerOutcome
    /\ (Finished /\ last.via = "home" /\ last.onSuccess # <<>>) =>
            \/ swapSuccessMessage = "null"
            \/ MessageStates(swapSuccessMessage, Reported)

-----------------------------------------------------------------------------
(* C23: ties on the oldest openedAt *)

\* the places, in what getOpenPositions returned, of the records of that side
\* with the least openedAt
TiedOldest(open, side) ==
    {i \in 1..Len(open) :
        /\ open[i].side = side
        /\ \A j \in 1..Len(open) :
              open[j].side = side => getTime(open[i].openedAt) <= getTime(open[j].openedAt)}

FirstOf(S) == CHOOSE i \in S : \A j \in S : i <= j

CloseOnTie ==
    /\ Finished /\ last.via = "direct" /\ Call.fn = "closePosition"
    /\ Cardinality(TiedOldest(last.seen, Call.side)) >= 2

\* C23: when two or more OPEN positions of the side to close have the same,
\* least openedAt, closePosition is called with the id of the one that comes
\* first in the sequence getOpenPositions returned.
C23_TieClosesFirst ==
    CloseOnTie => Call.id = last.seen[FirstOf(TiedOldest(last.seen, Call.side))].id

\* two OPEN SELL positions opened at the same time, and a buy swap closed the
\* first of them
C23_Witness ==
    /\ CloseOnTie /\ last.error = "none"
    /\ Call.side = "SELL"
    /\ Len(last.seen) = 2
    /\ Call.id = last.seen[1].id
    /\ last.post[1].status = "CLOSED" /\ last.post[2].status = "OPEN"

-----------------------------------------------------------------------------
(* C24, C25, C30: the price feed *)

\* str is word but for the case of its letters
SameButCase(str, word) ==
    /\ Len(str) = Len(word)
    /\ \A i \in 1..Len(word) :
          \/ str[i] = word[i]
          \/ \E k \in 1..Len(LowerCase) : LowerCase[k] = word[i] /\ UpperCase[k] = str[i]

\* the provider the configuration names
Configured(env) ==
    IF Has(env, "NEXT_PUBLIC_API_ETH_SPOT")
       /\ SameButCase(env.NEXT_PUBLIC_API_ETH_SPOT, StrCoingecko)
    THEN "coingecko" ELSE "coinbase"

OnlyConfiguredCalled ==
    /\ Len(priceFeed.calls) = 1
    /\ priceFeed.calls[1].provider = Configured(priceFeed.env)
    /\ Configured(priceFeed.env) = "coingecko" => priceFeed.requests = <<>>

\* C24: getEthSpotPrice calls CoinGecko if NEXT_PUBLIC_API_ETH_SPOT is
\* "coingecko" in any case of letters, and Coinbase for every other value and
\* when it is unset; it calls that provider once and never the other one,
\* whether the call succeeds or fails.
C24_ProviderByConfig ==
    priceFeed.fn = "getEthSpotPrice" => OnlyConfiguredCalled

\* configured as "CoinGecko", CoinGecko failed while Coinbase would have
\* answered: the error is the result and Coinbase was not asked
C24_Witness ==
    /\ priceFeed.fn = "getEthSpotPrice"
    /\ priceFeed.env = ("NEXT_PUBLIC_API_ETH_SPOT" :> <<"C", "o", "i", "n", "G", "e", "c", "k", "o">>)
    /\ ~priceFeed.result.ok
    /\ CoinbaseResult(priceFeed.world.coinbase, now).ok
    /\ Len(priceFeed.calls) = 1 /\ priceFeed.calls[1].provider = "coingecko"
    /\ priceFeed.requests = <<>>

\* the response is one the lookup cannot take a price from
BadResponse(response) ==
    \/ response.kind = "rejected"
    \/ response.status \notin 200..299
    \/ ~response.body.json
    \/ ~Has(response.body.value, "data")
    \/ ~Has(response.body.value.data, "amount")
    \/ IsNaN(parseFloat(response.body.value.data.amount))

AskedCoinbase ==
    /\ priceFeed.fn = "getEthSpotPrice"
    /\ priceFeed.calls # <<>> /\ priceFeed.calls[1].provider = "coinbase"

\* C25: one call of the spot-price lookup calls one provider once and sends at
\* most one HTTP request; when Coinbase is asked it sends exactly one GET, and
\* a failed request, a status outside 200..299, a body that is not JSON or has
\* no data.amount, or an amount that is not a number makes the call throw.
C25_OneRequestNoRetry ==
    priceFeed.fn = "getEthSpotPrice" =>
        /\ Len(priceFeed.calls) <= 1
        /\ Len(priceFeed.requests) <= 1
        /\ AskedCoinbase =>
              /\ priceFeed.requests = <<[method |-> "GET", url |-> SpotUrl]>>
              /\ BadResponse(priceFeed.world.coinbase) => ~priceFeed.result.ok

\* Coinbase answered 500 and CoinGecko would have had a price: one request was
\* sent and the call threw
C25_Witness ==
    /\ AskedCoinbase
    /\ priceFeed.world.coinbase.kind = "response"
    /\ priceFeed.world.coinbase.status = 500
    /\ priceFeed.world.coingecko.ok
    /\ Len(priceFeed.requests) = 1
    /\ priceFeed.result = ThrownBy("Failed to fetch current ETH price")

ManualGiven ==
    /\ priceFeed.fn = "getEthPriceWithFallback"
    /\ Has(priceFeed.args, "manualPrice") /\ Gt0(priceFeed.args.manualPrice)

ManualNotGiven ==
    /\ priceFeed.fn = "getEthPriceWithFallback"
    /\ Has(priceFeed.args, "manualPrice") => Le0(priceFeed.args.manualPrice)

\* C30: getEthPriceWithFallback with a manualPrice above 0 returns that price
\* with source "manual", whatever provider is configured, and calls no
\* provider and sends no request; with manualPrice missing, 0 or below 0 it
\* calls the configured provider, once, and no other.
C30_ManualPrice ==
    /\ ManualGiven =>
          /\ priceFeed.result.ok
          /\ priceFeed.result.price = priceFeed.args.manualPrice
          /\ priceFeed.result.source = "manual"
          /\ priceFeed.calls = <<>> /\ priceFeed.requests = <<>>
    /\ ManualNotGiven => OnlyConfiguredCalled

\* CoinGecko is configured and would fail, the manual price is 2500: it is
\* returned and no provider is called
C30_Witness ==
    /\ ManualGiven
    /\ Configured(priceFeed.env) = "coingecko"
    /\ ~priceFeed.world.coingecko.ok
    /\ priceFeed.args.manualPrice = Num(2500)
    /\ priceFeed.result.price = Num(2500) /\ priceFeed.result.source = "manual"
    /\ priceFeed.calls = <<>>

-----------------------------------------------------------------------------
(* C26: delete *)

DeleteCalled == storeCall.op = "delete" /\ IndexOf(storeCall.pre, storeCall.id) # 0

\* C26: delete(id) of a record the store holds, OPEN or CLOSED, leaves the
\* store with the other records, each as it was and in the order they had, and
\* without the record of that id.
C26_DeleteExact ==
    DeleteCalled =>
        /\ storeCall.error = "none"
        /\ storeCall.post = Remove(storeCall.pre, IndexOf(storeCall.pre, storeCall.id))
        /\ \A i \in 1..Len(storeCall.post) : storeCall.post[i].id # storeCall.id

\* the first of three records, a CLOSED one, was deleted; an OPEN and another
\* record follow it
C26_Witness ==
    /\ DeleteCalled
    /\ Len(storeCall.pre) = 3
    /\ storeCall.pre[1].id = storeCall.id
    /\ storeCall.pre[1].status = "CLOSED"
    /\ storeCall.pre[2].status = "OPEN"
    /\ storeCall.post = <<storeCall.pre[2], storeCall.pre[3]>>

-----------------------------------------------------------------------------
(* C27: the prices handed to the store *)

\* C27: no reconciliation calls openPosition with a priceUsd, or closePosition
\* with a closePriceUsd, that is 0, below 0 or not a number; the record it
\* opens or closes has that price above 0.
C27_PricesPositive ==
    (Finished /\ last.via = "direct") =>
        /\ Call.fn = "openPosition" =>
              /\ Gt0(Call.input.priceUsd)
              /\ last.error = "none" => Gt0(last.post[Len(last.post)].priceUsd)
        /\ Call.fn = "closePosition" =>
              /\ Gt0(Call.closePriceUsd)
              /\ last.error = "none" =>
                    Gt0(last.post[IndexOf(last.post, Call.id)].closePriceUsd)

-----------------------------------------------------------------------------
(* C28: the view of the open positions *)

Ids(s) == [k \in 1..Len(s) |-> s[k].id]

\* task i runs in this step and lists the open positions: what it is given
\* are the OPEN records the store holds at that moment
FreshView(i) ==
    \A j \in 1..Len(tasks') :
        (tasks'[j].swap = tasks[i].swap /\ tasks'[j].out.polled)
            => Ids(tasks'[j].seen) = Ids(listOpen(positions))

C28_Step == \A i \in 1..Len(tasks) : Started(i) => FreshView(i)

\* C28: when the deferred task of a swap runs, getOpenPositions gives it the
\* OPEN positions the store holds then, those opened and without those closed
\* by every reconciliation that completed before.
C28_ViewIsCurrent == [][C28_Step]_vars

-----------------------------------------------------------------------------
(* C29: a close dated before the opening *)

\* the side a swap of these tokens closes
Opposing(tokens) == IF IsUSDCToETH(tokens) THEN "SELL" ELSE "BUY"

\* the swap's time is before the opening of every OPEN position of the side
\* it closes, and there is such a position
SwapBeforeOpening ==
    /\ Finished /\ last.via = "direct"
    /\ IsUSDCToETH(last.tokens) \/ IsETHToUSDC(last.tokens)
    /\ AmountsPositive(last.transactionData)
    /\ OpenOn(last.pre, Opposing(last.tokens)) # {}
    /\ \A i \in OpenOn(last.pre, Opposing(last.tokens)) :
          ResolvedMs(last.transactionData, last.at) < getTime(last.pre[i].openedAt)

\* C29: a swap whose time is earlier than the openedAt of the oldest OPEN
\* position of the opposing side still closes that position: closePosition is
\* called with the swap's time as closedAt, the error callback is not called
\* for it, and unless the store fails the record is CLOSED with closedAt
\* before openedAt and the success callback reports the close.
C29_CloseBeforeOpen ==
    SwapBeforeOpening =>
        /\ Call.fn = "closePosition"
        /\ Call.id \in {last.pre[i].id : i \in OldestOn(last.pre, Opposing(last.tokens))}
        /\ getTime(Call.closedAt) = ResolvedMs(last.transactionData, last.at)
        /\ last.error = "none" =>
              LET i == IndexOf(last.post, Call.id)
              IN /\ last.post[i].status = "CLOSED"
                 /\ getTime(last.post[i].closedAt) < getTime(last.post[i].openedAt)
                 /\ last.onError = <<>>
                 /\ last.onSuccess = <<[action |-> "closed", side |-> Opposing(last.tokens)]>>

\* a BUY opened at 2000 ms was closed by a sell swap stamped 1 s
C29_Witness ==
    /\ SwapBeforeOpening /\ last.error = "none"
    /\ Call.fn = "closePosition" /\ Call.side = "BUY"
    /\ getTime(Call.closedAt) = 1000
    /\ getTime(last.post[IndexOf(last.post, Call.id)].openedAt) = 2000
    /\ last.post[IndexOf(last.post, Call.id)].status = "CLOSED"
    /\ last.onSuccess # <<>>

-----------------------------------------------------------------------------
(* C31: every reconciliation reports back *)

\* some reconciliation was started and has not finished; a reconciliation
\* leaves tasks only by finishing, which records its callbacks in last
SomeRunning == tasks # <<>>

OneCallback(obs) == Len(obs.onSuccess) + Len(obs.onError) = 1

\* C31: a reconciliation that has finished has called onSuccess or onError,
\* one of them and once; the reconciliations that were started finish, the
\* store calls settling; Home's isCreatingPosition, once true, becomes false
\* again, also after a swap of another pair and after a swap without a price,
\* and so does the value of it that Home's handler tests.
C31_CallbackAlways ==
    /\ [](Finished => OneCallback(last))
    /\ (SomeRunning ~> ~SomeRunning)
    /\ (isCreatingPosition ~> ~isCreatingPosition)
    /\ (rendered.isCreatingPosition ~> ~rendered.isCreatingPosition)

\* a swap of USDC for WBTC was reconciled through Home: onError was called and
\* the flag is down again
C31_Witness ==
    /\ Finished /\ last.via = "home"
    /\ last.tokens = Pair("USDC", "WBTC")
    /\ Len(last.onError) = 1 /\ last.onSuccess = <<>>
    /\ ~isCreatingPosition
    /\ tasks = <<>>

-----------------------------------------------------------------------------
(* C32: one side open at a time *)

\* C32: from an empty store, with reconciled swaps only, all OPEN positions
\* have the same side: an OPEN BUY and an OPEN SELL never exist together.
C32_OneSideOpen ==
    \A i, j \in 1..Len(positions) :
        (IsOpen(positions[i]) /\ IsOpen(positions[j])) => positions[i].side = positions[j].side

-----------------------------------------------------------------------------
(* C33: the store after B buy swaps and S sell swaps *)

CountOf(status) == Cardinality({i \in 1..Len(positions) : positions[i].status = status})

Least(a, b) == IF a < b THEN a ELSE b

-----------------------------------------------------------------------------
(* C34: the running percentage of PositionsTable against computePnL *)

\* C34: for either side and every pair of positive prices, the percentage
\* PositionsTable shows for an OPEN position,
\* Math.abs(pnl) / priceUsd * 100 * (pnl >= 0 ? 1 : -1), is the percent of
\* computePnL(side, priceUsd, currentEthPrice), that is pnl / priceUsd * 100;
\* both are 0 when the two prices are equal.
C34_ShownPercent ==
    profit.done =>
        LET pnl == currentPnL([side |-> profit.side, priceUsd |-> profit.openPrice],
                              profit.closePrice)
        IN /\ profit.shown.percent = profit.stored.percent
           /\ profit.shown.percent = NumMul(NumDiv(pnl, profit.openPrice), Num(100))
           /\ profit.openPrice = profit.closePrice =>
                 profit.shown.percent = Num(0) /\ profit.stored.percent = Num(0)

\* a SELL position opened at 2000 with the price now at 2200 is shown at -10 percent
C34_Witness ==
    /\ ProfitCase("SELL", 2000, 2200)
    /\ profit.shown.percent = Num(-10)
    /\ profit.stored.percent = Num(-10)

-----------------------------------------------------------------------------
(* C35: what the Coinbase client returns *)

\* the adapter handed the call to the Coinbase client
CoinbaseCalled ==
    /\ priceFeed.fn # "none"
    /\ priceFeed.calls # <<>> /\ priceFeed.calls[1].provider = "coinbase"

\* a 2xx JSON answer whose data.amount reads as a number above 0
PositiveAnswer(response) ==
    /\ response.kind = "response" /\ response.status \in 200..299
    /\ response.body.json
    /\ Has(response.body.value, "data") /\ Has(response.body.value.data, "amount")
    /\ Gt0(parseFloat(response.body.value.data.amount))

\* C35: the Coinbase client getEthSpotPrice never returns a price that is NaN,
\* zero or negative: a result it returns has price > 0 and source
\* "coinbase_spot", and every response other than a 2xx answer with a positive
\* data.amount ends in the error "Failed to fetch current ETH price".
C35_CoinbasePositive ==
    CoinbaseCalled =>
        IF priceFeed.result.ok
        THEN /\ ~IsNaN(priceFeed.result.price)
             /\ priceFeed.result.price.n > 0 /\ priceFeed.result.price.d > 0
             /\ priceFeed.result.source = "coinbase_spot"
             /\ PositiveAnswer(priceFeed.world.coinbase)
        ELSE /\ priceFeed.result = ThrownBy("Failed to fetch current ETH price")
             /\ ~PositiveAnswer(priceFeed.world.coinbase)

\* Coinbase answered 200 with the amount "0": the call threw
C35_Witness ==
    /\ CoinbaseCalled
    /\ priceFeed.world.coinbase.kind = "response"
    /\ priceFeed.world.coinbase.status = 200
    /\ priceFeed.world.coinbase.body = Json("data" :> ("amount" :> Str0))
    /\ priceFeed.result = ThrownBy("Failed to fetch current ETH price")

-----------------------------------------------------------------------------
(* C36: the flags of the delete confirmation modal *)

C36_FlagsAgree == showDeleteModal <=> positionToDelete # NullPosition

\* a call of handleDeletePosition whose deletePosition was rejected has ended
DeleteFailed == lastDelete.done /\ lastDelete.failed

DeleteSucceeded == lastDelete.done /\ ~lastDelete.failed

\* what the call left behind when it ended
C36_AfterFailure ==
    DeleteFailed =>
        /\ lastDelete.showDeleteModal
        /\ lastDelete.positionToDelete.id = lastDelete.id
        /\ lastDelete.isDeleting = NullId

C36_AfterSuccess ==
    DeleteSucceeded =>
        /\ ~lastDelete.showDeleteModal
        /\ lastDelete.positionToDelete = NullPosition

\* C36: in PositionsTable, after any sequence of delete clicks, confirmations
\* and cancellations, showDeleteModal is true exactly when positionToDelete is
\* set; a failed deletePosition leaves the modal open with the same position
\* selected and isDeleting null, and a successful one closes the modal and
\* clears the selection.
C36_ModalFlags == C36_FlagsAgree /\ C36_AfterFailure /\ C36_AfterSuccess

\* a rejected deletePosition ended with the modal closed and nothing selected:
\* another row was clicked and the modal cancelled while the call was awaiting
C36_FailedWithModalClosed ==
    /\ DeleteFailed
    /\ ~lastDelete.showDeleteModal
    /\ lastDelete.positionToDelete = NullPosition
    /\ lastDelete.calls = 1

====
